---- MODULE Spec2Model ----
(***************************************************************************)
(* termquiz: the answer/session state machine (state.rs), the key, mouse,  *)
(* timer and push handlers of the main loop (tui.rs), the snapshot layer   *)
(* (persist.rs, submit.rs) and the background push worker (tui.rs).        *)
(***************************************************************************)
EXTENDS Integers, Sequences, FiniteSets, TLC

\* ------------------------------------------------------------------ bounds
\* longest text held in the live buffer (the code has no limit)
MaxTextLen == 1
\* timestamps handed out by the clock are 1..MaxTime
MaxTime == 2
\* number of times the process is started
MaxRuns == 2
\* number of do_submit calls of one process
MaxSubmits == 2
\* number of failed pushes the remote may answer to one worker
MaxFailures == 1
\* number of events waiting in a channel
MaxQueue == 2
\* number of save_state calls that fail with an I/O error
MaxSaveFaults == 1
\* longest name typed on the acknowledgment screen
MaxNameLen == 2
\* failed pushes of one worker that are followed to the end of its retries
MaxBackoffs == 24
\* a parsed document has up to MaxHeadings level-2 headings, MaxItems
\* checkbox items and MaxTexts paragraph texts
MaxHeadings == 2
MaxItems == 27
MaxTexts == 3
\* a document with more than MaxMixedItems items is one question made of
\* block quotes and items that ends in a list
MaxMixedItems == 2

\* ------------------------------------------------------------- Option<T>
None == <<>>
Some(v) == <<v>>
IsSome(o) == Len(o) = 1
IsNone(o) == Len(o) = 0
Unwrap(o) == o[1]

Min(a, b) == IF a < b THEN a ELSE b
Max(a, b) == IF a > b THEN a ELSE b

\* the characters a key press can insert; NL is '\n'
NL == "\n"
TypedChars == {"x"}
Times == 1 .. MaxTime

\* ------------------------------------------------------------ model.rs
\* Question { number, kind, hints }; choices are their labels, FileConstraints
\* is reduced to max_files
Question(n, kind, choices, hints, max_files) ==
    [number |-> n, kind |-> kind, choices |-> choices, hints |-> hints,
     max_files |-> max_files]

\* Quiz { frontmatter.acknowledgment.required, questions, quiz_hash }
Quiz(hash, needs_ack, questions) ==
    [quiz_hash |-> hash, needs_ack |-> needs_ack, questions |-> questions]

\* Answer { answer_type, selected, text, files }
Answer(ty, selected, text, files) ==
    [answer_type |-> ty, selected |-> selected, text |-> text, files |-> files]

\* the quiz documents the program is explored on
QuizShort ==
    Quiz("h1", FALSE,
         << Question(2, "Short", <<>>, <<>>, None),
            Question(5, "SingleChoice", <<"a">>, <<>>, None) >>)
QuizLong ==
    Quiz("h1", FALSE,
         << Question(3, "Long", <<>>, <<>>, None) >>)
QuizMulti ==
    Quiz("h1", FALSE,
         << Question(1, "MultiChoice", <<"a", "b">>, <<>>, None) >>)
QuizFile ==
    Quiz("h1", TRUE,
         << Question(4, "File", <<>>, <<"hint1", "hint2">>, Some(1)) >>)
QuizPush ==
    Quiz("h1", FALSE,
         << Question(1, "SingleChoice", <<"a">>, <<"hint1">>, None) >>)
SessionQuizzes == {QuizShort, QuizLong, QuizMulti, QuizFile}

\* the documents resumed sessions are explored on
\* two level-2 headings with the same number: finalize_question pushes both
QuizTwin ==
    Quiz("h1", FALSE,
         << Question(3, "SingleChoice", <<"a">>, <<"hint1">>, None),
            Question(3, "Short", <<>>, <<>>, None) >>)
ResumeQuizzes == {QuizShort, QuizLong, QuizMulti, QuizTwin}

QuizHashes == {"h1", "h2"}

Numbers(quiz) == { quiz.questions[i].number : i \in 1 .. Len(quiz.questions) }

\* ------------------------------------------------------------ state.rs
AppState_new(quiz) ==
    [ screen |-> "Working",
      quiz |-> quiz,
      current_question |-> 0,
      answers |-> [n \in Numbers(quiz) |-> None],
      flags |-> [n \in Numbers(quiz) |-> FALSE],
      visited |-> [n \in Numbers(quiz) |-> FALSE],
      hints_revealed |-> [n \in Numbers(quiz) |-> 0],
      input_mode |-> "Navigation",
      dialog_stack |-> <<>>,
      text_input |-> <<>>,
      text_cursor |-> 0,
      remaining_seconds |-> None,
      started_at |-> None,
      submitted_at |-> None,
      should_quit |-> FALSE,
      ack_data |-> None,
      ack_name |-> <<>>,
      ack_checkbox |-> FALSE,
      ack_focus |-> "Name",
      push_attempt |-> 0,
      push_retry_secs |-> 0,
      push_elapsed_secs |-> 0,
      main_focus |-> "Answer",
      done_marks |-> [n \in Numbers(quiz) |-> FALSE] ]

\* AppState::current_question: Option<&Question>
current_question(s) ==
    IF s.current_question < Len(s.quiz.questions)
    THEN Some(s.quiz.questions[s.current_question + 1])
    ELSE None

current_question_number(s) ==
    IF IsSome(current_question(s)) THEN Unwrap(current_question(s)).number ELSE 0

IsTextKind(kind) == kind \in {"Short", "Long"}

is_current_text(s) ==
    IsSome(current_question(s)) /\ IsTextKind(Unwrap(current_question(s)).kind)

AnswerTypeOf(kind) ==
    CASE kind = "SingleChoice" -> "single"
      [] kind = "MultiChoice" -> "multi"
      [] kind = "Short" -> "short"
      [] kind = "Long" -> "long"
      [] kind = "File" -> "file"

\* AppState::question_status
question_status(s, qnum) ==
    LET cur == /\ IsSome(current_question(s))
               /\ Unwrap(current_question(s)).number = qnum
               /\ IsTextKind(Unwrap(current_question(s)).kind)
        current_text_empty == cur /\ s.text_input = <<>>
    IN IF ~current_text_empty /\ s.done_marks[qnum] THEN "Done"
       ELSE IF s.flags[qnum] THEN "Flagged"
       ELSE IF (IF cur THEN s.text_input # <<>> ELSE IsSome(s.answers[qnum]))
       THEN "Answered"
       ELSE IF s.visited[qnum] THEN "NotAnswered"
       ELSE "Unread"

\* a save_current_text_input without the Long arm
save_current_text_input_short_only(s) ==
    IF ~(IsSome(current_question(s)) /\ Unwrap(current_question(s)).kind = "Short")
    THEN s
    ELSE LET q == Unwrap(current_question(s)) IN
         IF s.text_input # <<>>
         THEN [s EXCEPT !.answers[q.number] =
                  Some(Answer(AnswerTypeOf(q.kind), None, Some(s.text_input), None))]
         ELSE [s EXCEPT !.answers[q.number] = None,
                        !.done_marks[q.number] = FALSE]

save_current_text_input(s) ==
    IF ~is_current_text(s) THEN s
    ELSE LET q == Unwrap(current_question(s)) IN
         IF s.text_input # <<>>
         THEN [s EXCEPT !.answers[q.number] =
                  Some(Answer(AnswerTypeOf(q.kind), None, Some(s.text_input), None))]
         ELSE [s EXCEPT !.answers[q.number] = None,
                        !.done_marks[q.number] = FALSE]

load_text_input_for_current(s) ==
    LET qo == current_question(s) IN
    IF /\ IsSome(qo)
       /\ IsSome(s.answers[Unwrap(qo).number])
       /\ IsSome(Unwrap(s.answers[Unwrap(qo).number]).text)
    THEN LET t == Unwrap(Unwrap(s.answers[Unwrap(qo).number]).text) IN
         [s EXCEPT !.text_input = t, !.text_cursor = Len(t)]
    ELSE [s EXCEPT !.text_input = <<>>, !.text_cursor = 0]

InputModeFor(kind) ==
    CASE kind \in {"SingleChoice", "MultiChoice"} -> "ChoiceSelect"
      [] kind \in {"Short", "Long"} -> "TextInput"
      [] kind = "File" -> "Navigation"

update_input_mode(s) ==
    IF IsSome(current_question(s))
    THEN [s EXCEPT !.input_mode = InputModeFor(Unwrap(current_question(s)).kind)]
    ELSE s

\* a navigate_to that drops the live buffer
navigate_to_without_commit(s, idx) ==
    IF idx < Len(s.quiz.questions)
    THEN LET s2 == [s EXCEPT !.current_question = idx,
                             !.visited[s.quiz.questions[idx + 1].number] = TRUE]
             s3 == load_text_input_for_current(s2)
             s4 == [s3 EXCEPT !.main_focus = "Answer"]
         IN update_input_mode(s4)
    ELSE s

navigate_to(s, idx) ==
    IF idx < Len(s.quiz.questions)
    THEN LET s1 == save_current_text_input(s)
             s2 == [s1 EXCEPT !.current_question = idx,
                              !.visited[s.quiz.questions[idx + 1].number] = TRUE]
             s3 == load_text_input_for_current(s2)
             s4 == [s3 EXCEPT !.main_focus = "Answer"]
         IN update_input_mode(s4)
    ELSE s

cycle_main_focus(s) ==
    LET has_unrevealed_hints ==
            /\ IsSome(current_question(s))
            /\ LET q == Unwrap(current_question(s)) IN
               Len(q.hints) > 0 /\ s.hints_revealed[q.number] < Len(q.hints)
    IN CASE s.main_focus = "Answer" ->
              [save_current_text_input(s) EXCEPT
                  !.input_mode = "Navigation",
                  !.main_focus = IF has_unrevealed_hints THEN "Hint" ELSE "DoneButton"]
         [] s.main_focus = "Hint" -> [s EXCEPT !.main_focus = "DoneButton"]
         [] s.main_focus = "DoneButton" -> [s EXCEPT !.main_focus = "FlagButton"]
         [] s.main_focus = "FlagButton" ->
              [update_input_mode(s) EXCEPT !.main_focus = "Answer"]

\* toggle_done that marks the question whether or not it has an answer
toggle_done_without_answer(s) ==
    LET qnum == current_question_number(s) IN
    IF s.done_marks[qnum]
    THEN [st |-> [s EXCEPT !.done_marks[qnum] = FALSE], ret |-> TRUE]
    ELSE [st |-> [save_current_text_input(s) EXCEPT
                     !.done_marks[qnum] = TRUE,
                     !.flags[qnum] = FALSE],
          ret |-> TRUE]

\* toggle_done returns (state, bool)
toggle_done(s) ==
    LET qnum == current_question_number(s) IN
    IF s.done_marks[qnum]
    THEN [st |-> [s EXCEPT !.done_marks[qnum] = FALSE], ret |-> TRUE]
    ELSE LET has_answer == IF is_current_text(s)
                           THEN s.text_input # <<>>
                           ELSE IsSome(s.answers[qnum])
         IN IF ~has_answer
            THEN [st |-> s, ret |-> FALSE]
            ELSE [st |-> [save_current_text_input(s) EXCEPT
                              !.done_marks[qnum] = TRUE,
                              !.flags[qnum] = FALSE],
                  ret |-> TRUE]

\* toggle_flag that leaves the done mark alone
toggle_flag_keeping_done(s) ==
    LET qnum == current_question_number(s) IN
    [s EXCEPT !.flags[qnum] = ~s.flags[qnum]]

toggle_flag(s) ==
    LET qnum == current_question_number(s) IN
    IF s.flags[qnum]
    THEN [s EXCEPT !.flags[qnum] = FALSE]
    ELSE [s EXCEPT !.flags[qnum] = TRUE, !.done_marks[qnum] = FALSE]

select_single_choice(s, idx) ==
    LET qo == current_question(s) IN
    IF IsSome(qo) /\ Unwrap(qo).kind = "SingleChoice" /\ idx < Len(Unwrap(qo).choices)
    THEN [s EXCEPT !.answers[Unwrap(qo).number] =
             Some(Answer("single", Some(<<Unwrap(qo).choices[idx + 1]>>), None, None))]
    ELSE s

\* Vec::retain(|s| s != label)
Retain(seq, label) == SelectSeq(seq, LAMBDA x : x # label)

Contains(seq, x) == \E i \in 1 .. Len(seq) : seq[i] = x

toggle_multi_choice(s, idx) ==
    LET qo == current_question(s) IN
    IF IsSome(qo) /\ Unwrap(qo).kind = "MultiChoice" /\ idx < Len(Unwrap(qo).choices)
    THEN LET q == Unwrap(qo)
             label == q.choices[idx + 1]
             selected == IF IsSome(s.answers[q.number])
                         THEN LET sel == Unwrap(s.answers[q.number]).selected IN
                              IF IsSome(sel) THEN Unwrap(sel) ELSE <<>>
                         ELSE <<>>
             selected2 == IF Contains(selected, label)
                          THEN Retain(selected, label)
                          ELSE Append(selected, label)
         IN [s EXCEPT !.answers[q.number] =
                Some(Answer("multi", Some(selected2), None, None))]
    ELSE s

get_file_list(s, qnum) ==
    IF IsSome(s.answers[qnum]) /\ IsSome(Unwrap(s.answers[qnum]).files)
    THEN Unwrap(Unwrap(s.answers[qnum]).files)
    ELSE <<>>

add_file(s, qnum, file_path) ==
    LET existing == IF IsSome(s.answers[qnum]) THEN Unwrap(s.answers[qnum])
                    ELSE Answer("file", None, None, Some(<<>>))
        updated == IF IsSome(existing.files)
                   THEN [existing EXCEPT !.files = Some(Append(Unwrap(existing.files), file_path))]
                   ELSE existing
    IN [s EXCEPT !.answers[qnum] = Some(updated)]

push_dialog(s, d) == [s EXCEPT !.dialog_stack = Append(s.dialog_stack, d)]
pop_dialog(s) ==
    IF s.dialog_stack = <<>> THEN s
    ELSE [s EXCEPT !.dialog_stack = SubSeq(s.dialog_stack, 1, Len(s.dialog_stack) - 1)]
has_dialog(s) == s.dialog_stack # <<>>
top_dialog(s) ==
    IF s.dialog_stack = <<>> THEN None ELSE Some(s.dialog_stack[Len(s.dialog_stack)])

\* ------------------------------------------------------------ submit.rs
\* str::split('\n')
RECURSIVE SplitNL(_)
SplitNL(t) ==
    IF \E i \in 1 .. Len(t) : t[i] = NL
    THEN LET i == CHOOSE j \in 1 .. Len(t) :
                      t[j] = NL /\ \A k \in 1 .. j - 1 : t[k] # NL
         IN <<SubSeq(t, 1, i - 1)>> \o SplitNL(SubSeq(t, i + 1, Len(t)))
    ELSE <<t>>

\* str::lines(): the segments between line feeds, without a final empty one
Lines(t) ==
    LET segs == SplitNL(t) IN
    IF segs[Len(segs)] = <<>> THEN SubSeq(segs, 1, Len(segs) - 1) ELSE segs

\* Path::file_name of a stored attachment path
file_name(path) == path[3]

\* the path copy_file_to_state returns: <dir>/response/files/q<n>/<name>
StoredPath(qnum, name) == <<"abs", qnum, name>>

\* the "answer:" value written for one question, as YAML text
AnswerYaml(q, answer) ==
    CASE q.kind = "SingleChoice" ->
           IF IsSome(answer) /\ IsSome(Unwrap(answer).selected)
              /\ Unwrap(Unwrap(answer).selected) # <<>>
           THEN [y |-> "plain", v |-> Unwrap(Unwrap(answer).selected)[1]]
           ELSE [y |-> "null"]
      [] q.kind = "MultiChoice" ->
           IF IsSome(answer) /\ IsSome(Unwrap(answer).selected)
              /\ Unwrap(Unwrap(answer).selected) # <<>>
           THEN [y |-> "flow", v |-> Unwrap(Unwrap(answer).selected)]
           ELSE [y |-> "null"]
      [] q.kind = "Short" ->
           IF IsSome(answer) /\ IsSome(Unwrap(answer).text)
           THEN [y |-> "quoted", v |-> Unwrap(Unwrap(answer).text)]
           ELSE [y |-> "null"]
      [] q.kind = "Long" ->
           IF IsSome(answer) /\ IsSome(Unwrap(answer).text)
           THEN [y |-> "block", v |-> Lines(Unwrap(Unwrap(answer).text))]
           ELSE [y |-> "null"]
      [] q.kind = "File" ->
           IF IsSome(answer) /\ IsSome(Unwrap(answer).files)
              /\ Unwrap(Unwrap(answer).files) # <<>>
           THEN [y |-> "list",
                 v |-> [i \in 1 .. Len(Unwrap(Unwrap(answer).files)) |->
                          <<"rel", q.number, file_name(Unwrap(Unwrap(answer).files)[i])>>]]
           ELSE [y |-> "null"]

QuestionYaml(s, q) ==
    [ number |-> q.number,
      type |-> AnswerTypeOf(q.kind),
      hint_used |-> s.hints_revealed[q.number] > 0,
      done |-> s.done_marks[q.number],
      flagged |-> s.flags[q.number],
      answer |-> AnswerYaml(q, s.answers[q.number]) ]

\* format!("{:02}", n) for n >= 0: decimal digits, zero-padded to two
RECURSIVE Decimal(_)
Decimal(n) ==
    LET digit == <<"0", "1", "2", "3", "4", "5", "6", "7", "8", "9">>[(n % 10) + 1]
    IN IF n < 10 THEN <<digit>> ELSE Append(Decimal(n \div 10), digit)

Pad2(n) == IF n < 10 THEN <<"0">> \o Decimal(n) ELSE Decimal(n)

\* compute_duration: timestamps are seconds; "unknown" unless both are there
compute_duration(started, submitted) ==
    IF IsSome(started) /\ IsSome(submitted)
    THEN LET secs == Max(Unwrap(submitted) - Unwrap(started), 0)
             h == secs \div 3600
             m == (secs % 3600) \div 60
             sec == secs % 60
         IN Pad2(h) \o <<":">> \o Pad2(m) \o <<":">> \o Pad2(sec)
    ELSE <<"u", "n", "k", "n", "o", "w", "n">>

\* the document build_answers_yaml writes; absent keys are None
build_answers_yaml(s) ==
    [ submitted_at |-> s.submitted_at,
      duration |-> compute_duration(s.started_at, s.submitted_at),
      acknowledged |-> IsSome(s.ack_data),
      current_question |-> s.current_question,
      quiz_file_hash |-> s.quiz.quiz_hash,
      started_at |-> s.started_at,
      acknowledgment |-> s.ack_data,
      questions |-> [i \in 1 .. Len(s.quiz.questions) |->
                        QuestionYaml(s, s.quiz.questions[i])] ]

\* ------------------------------------------------------------ persist.rs
\* files of the response directory
Absent == [kind |-> "absent"]
Corrupt == [kind |-> "corrupt"]
Complete(doc) == [kind |-> "doc", doc |-> doc]
Partial(doc) == [kind |-> "partial", doc |-> doc]

\* how one call of save_state can end
SaveOutcomes ==
    {"ok", "mkdir_fails", "write_fails", "rename_fails",
     "crash_in_write", "crash_before_rename", "crash_after_rename"}
SaveCrashes == {"crash_in_write", "crash_before_rename", "crash_after_rename"}

\* fs::write straight to the path, without the temporary file
atomic_write_in_place(d, content, outcome) ==
    CASE outcome \in {"ok", "crash_after_rename", "rename_fails",
                      "crash_before_rename"} ->
           [d EXCEPT !.snapshot = Complete(content)]
      [] outcome \in {"write_fails", "crash_in_write"} ->
           [d EXCEPT !.snapshot = Partial(content)]

\* fs::write(tmp) then fs::rename(tmp, path)
atomic_write(d, content, outcome) ==
    CASE outcome \in {"ok", "crash_after_rename"} ->
           [d EXCEPT !.snapshot = Complete(content), !.tmp = Absent]
      [] outcome \in {"write_fails", "crash_in_write"} ->
           [d EXCEPT !.tmp = Partial(content)]
      [] outcome \in {"rename_fails", "crash_before_rename"} ->
           [d EXCEPT !.tmp = Complete(content)]

save_state(s, d, outcome) ==
    IF outcome = "mkdir_fails" THEN d
    ELSE atomic_write(d, build_answers_yaml(s), outcome)

clear_state(d) == [d EXCEPT !.snapshot = Absent, !.tmp = Absent]

\* a YAML literal block read back: trailing empty lines are clipped to one
\* line feed, an all-empty block is the empty string
RECURSIVE StripTrailingEmpty(_)
StripTrailingEmpty(ls) ==
    IF ls # <<>> /\ ls[Len(ls)] = <<>>
    THEN StripTrailingEmpty(SubSeq(ls, 1, Len(ls) - 1))
    ELSE ls

RECURSIVE JoinLines(_)
JoinLines(ls) ==
    IF ls = <<>> THEN <<>> ELSE ls[1] \o <<NL>> \o JoinLines(Tail(ls))

\* serde_yaml Value::as_str of an answer value
YamlAsStr(v) ==
    CASE v.y = "plain" -> Some(v.v)
      [] v.y = "quoted" -> Some(v.v)
      [] v.y = "block" -> Some(JoinLines(StripTrailingEmpty(v.v)))
      [] OTHER -> None

\* serde_yaml Value::as_sequence of an answer value
YamlAsSeq(v) ==
    IF v.y \in {"flow", "list"} THEN Some(v.v) ELSE None

\* the Answer load_state restores from one question entry
LoadedAnswer(qv) ==
    IF qv.answer.y = "null" THEN None
    ELSE CASE qv.type = "single" ->
                IF IsSome(YamlAsStr(qv.answer))
                THEN Some(Answer("single", Some(<<Unwrap(YamlAsStr(qv.answer))>>), None, None))
                ELSE None
           [] qv.type = "multi" ->
                IF IsSome(YamlAsSeq(qv.answer))
                THEN Some(Answer("multi", Some(Unwrap(YamlAsSeq(qv.answer))), None, None))
                ELSE None
           [] qv.type \in {"short", "long"} ->
                IF IsSome(YamlAsStr(qv.answer))
                THEN Some(Answer(qv.type, None, Some(Unwrap(YamlAsStr(qv.answer))), None))
                ELSE None
           [] qv.type = "file" ->
                IF IsSome(YamlAsSeq(qv.answer))
                THEN Some(Answer("file", None, None, Some(Unwrap(YamlAsSeq(qv.answer)))))
                ELSE None
           [] OTHER -> None

\* one iteration of the loop over doc["questions"]
LoadQuestion(s, qv) ==
    LET a == LoadedAnswer(qv)
        s1 == IF IsSome(a)
              THEN [s EXCEPT !.answers[qv.number] = a, !.visited[qv.number] = TRUE]
              ELSE s
        s2 == IF qv.done THEN [s1 EXCEPT !.done_marks[qv.number] = TRUE] ELSE s1
        s3 == IF qv.flagged THEN [s2 EXCEPT !.flags[qv.number] = TRUE] ELSE s2
    IN IF qv.hint_used THEN [s3 EXCEPT !.hints_revealed[qv.number] = 1] ELSE s3

RECURSIVE LoadQuestions(_, _)
LoadQuestions(s, qvs) ==
    IF qvs = <<>> THEN s ELSE LoadQuestions(LoadQuestion(s, Head(qvs)), Tail(qvs))

\* load_state using the stored position without looking at the question count
RestoreSession_unchecked(s, doc) ==
    LoadQuestions([s EXCEPT !.current_question = doc.current_question],
                  doc.questions)

\* load_state after the hash check: the session read from the document
RestoreSession(s, doc) ==
    LET s1 == IF doc.current_question < Len(s.quiz.questions)
              THEN [s EXCEPT !.current_question = doc.current_question]
              ELSE s
        s2 == IF IsSome(doc.submitted_at)
              THEN [s1 EXCEPT !.submitted_at = doc.submitted_at]
              ELSE s1
        s3 == IF IsSome(doc.started_at)
              THEN [s2 EXCEPT !.started_at = doc.started_at]
              ELSE s2
        s4 == IF IsSome(doc.acknowledgment)
                 /\ Unwrap(doc.acknowledgment).name # <<>>
              THEN [s3 EXCEPT !.ack_data = doc.acknowledgment]
              ELSE s3
    IN LoadQuestions(s4, doc.questions)

\* load_state without the comparison of the hashes
load_state_any_hash(s, d) ==
    CASE d.snapshot.kind = "absent" -> [st |-> s, res |-> "Ok_false"]
      [] d.snapshot.kind \in {"corrupt", "partial"} -> [st |-> s, res |-> "Err"]
      [] d.snapshot.kind = "doc" ->
           [st |-> RestoreSession(s, d.snapshot.doc), res |-> "Ok_true"]

\* load_state: Ok(true), Ok(false) or Err, with the session it leaves
load_state(s, d) ==
    CASE d.snapshot.kind = "absent" -> [st |-> s, res |-> "Ok_false"]
      [] d.snapshot.kind \in {"corrupt", "partial"} -> [st |-> s, res |-> "Err"]
      [] d.snapshot.kind = "doc" ->
           IF d.snapshot.doc.quiz_file_hash # s.quiz.quiz_hash
           THEN [st |-> s, res |-> "Err"]
           ELSE [st |-> RestoreSession(s, d.snapshot.doc), res |-> "Ok_true"]

\* --------------------------------------------------------------- tui.rs
\* KeyEvent { code, modifiers }: ch is the character of a Char key
Key(code, ch, ctrl) == [code |-> code, ch |-> ch, ctrl |-> ctrl]
PlainKey(code) == Key(code, "", FALSE)
CharKey(ch) == Key("Char", ch, FALSE)
CtrlKey(ch) == Key("Char", ch, TRUE)

Keys ==
    { PlainKey(c) : c \in {"Enter", "Esc", "Tab", "Backspace", "Delete", "Left",
                           "Right", "Up", "Down", "Home", "End", "PageUp",
                           "PageDown"} }
    \cup { CharKey(c) : c \in {"x", "a", "b", " ", "?"} }
    \cup { CtrlKey(c) : c \in {"q", "s", "n", "f", "h", "e", "a"} }
    \cup { Key("Up", "", TRUE), Key("Down", "", TRUE) }

\* what the external editor and the file picker hand back
EditorResults == { None, Some(<<>>), Some(<<"x">>), Some(<<"x", NL>>) }
PickResults == { None, Some("f1") }

\* String::insert / String::remove at a byte index
InsertAt(t, i, c) == SubSeq(t, 1, i) \o <<c>> \o SubSeq(t, i + 1, Len(t))
RemoveAt(t, i) == SubSeq(t, 1, i) \o SubSeq(t, i + 2, Len(t))

\* 1-based index of the last / first line feed of t, 0 when there is none
LastNL(t) ==
    IF \E i \in 1 .. Len(t) : t[i] = NL
    THEN CHOOSE i \in 1 .. Len(t) : t[i] = NL /\ \A k \in i + 1 .. Len(t) : t[k] # NL
    ELSE 0
FirstNL(t) ==
    IF \E i \in 1 .. Len(t) : t[i] = NL
    THEN CHOOSE i \in 1 .. Len(t) : t[i] = NL /\ \A k \in 1 .. i - 1 : t[k] # NL
    ELSE 0

CountNL(t) == Cardinality({ i \in 1 .. Len(t) : t[i] = NL })

cursor_row_col(text, cursor) ==
    LET pos == Min(cursor, Len(text))
        before == SubSeq(text, 1, pos)
    IN [row |-> CountNL(before),
        col |-> IF LastNL(before) = 0 THEN pos ELSE pos - LastNL(before)]

RECURSIVE LineOffset(_, _)
LineOffset(lines, n) ==
    IF n = 0 THEN 0 ELSE Len(lines[n]) + 1 + LineOffset(lines, n - 1)

move_cursor_up(s) ==
    LET rc == cursor_row_col(s.text_input, s.text_cursor)
        lines == SplitNL(s.text_input)
    IN IF rc.row = 0 THEN s
       ELSE [s EXCEPT !.text_cursor =
                LineOffset(lines, rc.row - 1) + Min(rc.col, Len(lines[rc.row]))]

move_cursor_down(s) ==
    LET rc == cursor_row_col(s.text_input, s.text_cursor)
        lines == SplitNL(s.text_input)
    IN IF rc.row + 1 >= Len(lines) THEN s
       ELSE [s EXCEPT !.text_cursor =
                LineOffset(lines, rc.row + 1) + Min(rc.col, Len(lines[rc.row + 2]))]

navigate_prev(s) ==
    IF s.current_question > 0 THEN navigate_to(s, s.current_question - 1) ELSE s

navigate_next(s) ==
    IF s.current_question + 1 < Len(s.quiz.questions)
    THEN navigate_to(s, s.current_question + 1)
    ELSE s

handle_page_keys(s, k) ==
    LET total == Len(s.quiz.questions) IN
    CASE k.code = "PageUp" -> navigate_to(s, Max(s.current_question - 5, 0))
      [] k.code = "PageDown" ->
           navigate_to(s, Min(s.current_question + 5, Max(total - 1, 0)))
      [] k.code = "Home" -> navigate_to(s, 0)
      [] k.code = "End" -> IF total > 0 THEN navigate_to(s, total - 1) ELSE s
      [] OTHER -> s

handle_text_input_key(s, k) ==
    LET is_long == IsSome(current_question(s))
                   /\ Unwrap(current_question(s)).kind = "Long"
        s1 ==
          CASE k.code = "Char" /\ ~k.ctrl ->
                 [s EXCEPT !.text_input = InsertAt(s.text_input, s.text_cursor, k.ch),
                           !.text_cursor = s.text_cursor + 1]
            [] k.code = "Backspace" ->
                 IF s.text_cursor > 0
                 THEN [s EXCEPT !.text_cursor = s.text_cursor - 1,
                                !.text_input = RemoveAt(s.text_input, s.text_cursor - 1)]
                 ELSE s
            [] k.code = "Delete" ->
                 IF s.text_cursor < Len(s.text_input)
                 THEN [s EXCEPT !.text_input = RemoveAt(s.text_input, s.text_cursor)]
                 ELSE s
            [] k.code = "Left" ->
                 IF s.text_cursor > 0
                 THEN [s EXCEPT !.text_cursor = s.text_cursor - 1] ELSE s
            [] k.code = "Right" ->
                 IF s.text_cursor < Len(s.text_input)
                 THEN [s EXCEPT !.text_cursor = s.text_cursor + 1] ELSE s
            [] k.code = "Enter" ->
                 IF is_long
                 THEN [s EXCEPT !.text_input = InsertAt(s.text_input, s.text_cursor, NL),
                                !.text_cursor = s.text_cursor + 1]
                 ELSE navigate_next(save_current_text_input(s))
            [] k.code = "Up" ->
                 IF is_long THEN move_cursor_up(s)
                 ELSE navigate_prev(save_current_text_input(s))
            [] k.code = "Down" ->
                 IF is_long THEN move_cursor_down(s)
                 ELSE navigate_next(save_current_text_input(s))
            [] k.code = "Home" ->
                 IF is_long
                 THEN [s EXCEPT !.text_cursor =
                          LastNL(SubSeq(s.text_input, 1, s.text_cursor))]
                 ELSE [s EXCEPT !.text_cursor = 0]
            [] k.code = "End" ->
                 IF is_long
                 THEN LET after == SubSeq(s.text_input, s.text_cursor + 1,
                                          Len(s.text_input))
                      IN [s EXCEPT !.text_cursor =
                             IF FirstNL(after) = 0 THEN Len(s.text_input)
                             ELSE s.text_cursor + FirstNL(after) - 1]
                 ELSE [s EXCEPT !.text_cursor = Len(s.text_input)]
            [] k.code = "Esc" ->
                 [save_current_text_input(s) EXCEPT !.input_mode = "Navigation"]
            [] OTHER -> s
    IN \* if text was emptied, clear done mark immediately
       IF s1.text_input = <<>> /\ s1.done_marks[current_question_number(s1)]
       THEN [s1 EXCEPT !.done_marks[current_question_number(s1)] = FALSE]
       ELSE s1

\* c as u8 - b'a' for the lowercase letters a key can carry
LetterIndex(c) == CASE c = "a" -> 0 [] c = "b" -> 1 [] c = "x" -> 23
is_ascii_lowercase(c) == c \in {"a", "b", "x"}

handle_choice_key(s, k) ==
    LET qo == current_question(s) IN
    IF IsSome(qo) /\ Unwrap(qo).kind \in {"SingleChoice", "MultiChoice"}
    THEN CASE k.code \in {"Up", "Left"} -> navigate_prev(s)
           [] k.code \in {"Down", "Right"} -> navigate_next(s)
           [] k.code = "Char" /\ k.ch = "?" -> push_dialog(s, "Help")
           [] k.code = "Char" /\ k.ch # "?" /\ is_ascii_lowercase(k.ch) /\ ~k.ctrl ->
                IF LetterIndex(k.ch) < Len(Unwrap(qo).choices)
                THEN IF Unwrap(qo).kind = "SingleChoice"
                     THEN select_single_choice(s, LetterIndex(k.ch))
                     ELSE toggle_multi_choice(s, LetterIndex(k.ch))
                ELSE s
           [] OTHER -> handle_page_keys(s, k)
    ELSE s

handle_nav_key(s, k) ==
    IF is_current_text(s) /\ k.code = "Enter"
    THEN [s EXCEPT !.input_mode = "TextInput"]
    ELSE IF is_current_text(s) /\ k.code = "Char" /\ ~k.ctrl /\ k.ch # "?"
    THEN [s EXCEPT !.input_mode = "TextInput",
                   !.text_input = InsertAt(s.text_input, s.text_cursor, k.ch),
                   !.text_cursor = s.text_cursor + 1]
    ELSE CASE k.code \in {"Up", "Left"} -> navigate_prev(s)
           [] k.code \in {"Down", "Right"} -> navigate_next(s)
           [] k.code = "Char" /\ k.ch = "?" -> push_dialog(s, "Help")
           [] OTHER -> handle_page_keys(s, k)

\* the Ctrl+H and Space-on-Hint branches
request_hint(s) ==
    LET qnum == current_question_number(s) IN
    IF IsSome(current_question(s))
       /\ s.hints_revealed[qnum] < Len(Unwrap(current_question(s)).hints)
    THEN push_dialog(s, "ConfirmHint")
    ELSE s

\* the Ctrl+N, Space-on-Done and mouse branches
request_done(s) ==
    LET r == toggle_done(s) IN
    IF r.ret THEN r.st ELSE push_dialog(r.st, "DoneRequiresAnswer")

\* the Ctrl+E branch; ed is the editor's result
edit_long(s, ed) ==
    LET qo == current_question(s) IN
    IF IsSome(qo) /\ Unwrap(qo).kind = "Long" /\ IsSome(ed)
    THEN load_text_input_for_current(
           [s EXCEPT !.answers[Unwrap(qo).number] =
               Some(Answer("long", None, Some(Unwrap(ed)), None))])
    ELSE s

\* the Ctrl+A branch; pick is the picked, validated and copied file
attach_file(s, pick) ==
    LET qo == current_question(s) IN
    IF IsSome(qo) /\ Unwrap(qo).kind = "File"
    THEN LET q == Unwrap(qo) IN
         IF IsSome(q.max_files) /\ Len(get_file_list(s, q.number)) >= Unwrap(q.max_files)
         THEN s
         ELSE IF IsSome(pick)
              THEN add_file(s, q.number, StoredPath(q.number, Unwrap(pick)))
              ELSE s
    ELSE s

handle_working_key(s, k, ed, pick) ==
    IF k.ctrl /\ k.code = "Char" /\ k.ch = "q" THEN push_dialog(s, "ConfirmQuit")
    ELSE IF k.ctrl /\ k.code = "Char" /\ k.ch = "s"
    THEN push_dialog(save_current_text_input(s), "ConfirmSubmit")
    ELSE IF k.ctrl /\ k.code = "Char" /\ k.ch = "n" THEN request_done(s)
    ELSE IF k.ctrl /\ k.code = "Char" /\ k.ch = "f" THEN toggle_flag(s)
    ELSE IF k.ctrl /\ k.code \in {"Up", "Left"}
    THEN navigate_prev(save_current_text_input(s))
    ELSE IF k.ctrl /\ k.code \in {"Down", "Right"}
    THEN navigate_next(save_current_text_input(s))
    ELSE IF k.ctrl /\ k.code = "Char" /\ k.ch = "h" THEN request_hint(s)
    ELSE IF k.ctrl /\ k.code = "Char" /\ k.ch = "e" THEN edit_long(s, ed)
    ELSE IF k.ctrl /\ k.code = "Char" /\ k.ch = "a" THEN attach_file(s, pick)
    ELSE IF k.code = "Tab" THEN cycle_main_focus(s)
    ELSE IF k.code = "Char" /\ k.ch = " " /\ ~k.ctrl /\ s.main_focus # "Answer"
    THEN CASE s.main_focus = "Hint" -> request_hint(s)
           [] s.main_focus = "DoneButton" -> request_done(s)
           [] s.main_focus = "FlagButton" -> toggle_flag(s)
    ELSE CASE s.input_mode = "TextInput" -> handle_text_input_key(s, k)
           [] s.input_mode = "ChoiceSelect" -> handle_choice_key(s, k)
           [] s.input_mode = "Navigation" -> handle_nav_key(s, k)
           [] OTHER -> s

handle_waiting_key(s, k) ==
    IF k.code = "Char" /\ k.ch = "q" /\ k.ctrl
    THEN [s EXCEPT !.should_quit = TRUE] ELSE s

handle_preamble_key(s, k, now) ==
    CASE k.code = "Enter" ->
           IF s.quiz.needs_ack /\ IsNone(s.ack_data)
           THEN [s EXCEPT !.screen = "Acknowledgment",
                          !.input_mode = "AckNameInput",
                          !.ack_focus = "Name"]
           ELSE [s EXCEPT !.screen = "Working",
                          !.started_at = IF IsNone(s.started_at) THEN Some(now)
                                         ELSE s.started_at]
      [] k.code = "Char" /\ k.ch = "q" /\ k.ctrl -> [s EXCEPT !.should_quit = TRUE]
      [] OTHER -> s

AckToPreamble(s) == [s EXCEPT !.screen = "Preamble", !.input_mode = "Navigation"]

handle_ack_key(s, k, now) ==
    CASE s.ack_focus = "Name" ->
           CASE k.code = "Char" /\ ~k.ctrl ->
                  [s EXCEPT !.ack_name = Append(s.ack_name, k.ch)]
             [] k.code = "Backspace" ->
                  [s EXCEPT !.ack_name =
                      IF s.ack_name = <<>> THEN <<>>
                      ELSE SubSeq(s.ack_name, 1, Len(s.ack_name) - 1)]
             [] k.code \in {"Tab", "Enter"} -> [s EXCEPT !.ack_focus = "Checkbox"]
             [] k.code = "Esc" -> AckToPreamble(s)
             [] OTHER -> s
      [] s.ack_focus = "Checkbox" ->
           CASE (k.code = "Char" /\ k.ch = " ") \/ k.code = "Enter" ->
                  [s EXCEPT !.ack_checkbox = ~s.ack_checkbox]
             [] k.code = "Tab" -> [s EXCEPT !.ack_focus = "Ok"]
             [] k.code = "Esc" -> AckToPreamble(s)
             [] OTHER -> s
      [] s.ack_focus = "Ok" ->
           CASE k.code = "Enter" ->
                  IF Len(s.ack_name) >= 2 /\ s.ack_checkbox
                  THEN [s EXCEPT !.ack_data = Some([name |-> s.ack_name,
                                                    agreed_at |-> now]),
                                 !.screen = "Working",
                                 !.input_mode = "Navigation",
                                 !.started_at = IF IsNone(s.started_at) THEN Some(now)
                                                ELSE s.started_at]
                  ELSE s
             [] k.code = "Tab" -> [s EXCEPT !.ack_focus = "Cancel"]
             [] k.code = "Esc" -> AckToPreamble(s)
             [] OTHER -> s
      [] s.ack_focus = "Cancel" ->
           CASE k.code = "Enter" -> AckToPreamble(s)
             [] k.code = "Tab" -> [s EXCEPT !.ack_focus = "Name",
                                            !.input_mode = "AckNameInput"]
             [] k.code = "Esc" -> AckToPreamble(s)
             [] OTHER -> s

\* handle_dialog_key without the calls that reach outside the session:
\* eff says whether do_submit or the quit save follows
handle_dialog_key(s, k) ==
    LET d == Unwrap(top_dialog(s)) IN
    CASE d = "ConfirmSubmit" ->
           IF k.code = "Enter" THEN [st |-> pop_dialog(s), eff |-> "submit"]
           ELSE IF k.code = "Esc" THEN [st |-> pop_dialog(s), eff |-> "none"]
           ELSE [st |-> s, eff |-> "none"]
      [] d = "ConfirmQuit" ->
           IF k.code = "Enter"
           THEN [st |-> save_current_text_input(pop_dialog(s)), eff |-> "quit"]
           ELSE IF k.code = "Esc" THEN [st |-> pop_dialog(s), eff |-> "none"]
           ELSE [st |-> s, eff |-> "none"]
      [] d = "ConfirmHint" ->
           IF k.code = "Enter"
           THEN LET s1 == pop_dialog(s)
                    qnum == current_question_number(s1)
                    current == s1.hints_revealed[qnum]
                    s2 == [s1 EXCEPT !.hints_revealed[qnum] = current + 1]
                    all_revealed ==
                        IF IsSome(current_question(s2))
                        THEN current + 1 >= Len(Unwrap(current_question(s2)).hints)
                        ELSE TRUE
                IN [st |-> IF s2.main_focus = "Hint" /\ all_revealed
                           THEN [s2 EXCEPT !.main_focus = "DoneButton"] ELSE s2,
                    eff |-> "none"]
           ELSE IF k.code = "Esc" THEN [st |-> pop_dialog(s), eff |-> "none"]
           ELSE [st |-> s, eff |-> "none"]
      [] d = "DoneRequiresAnswer" -> [st |-> pop_dialog(s), eff |-> "none"]
      [] d = "TwoMinuteWarning" ->
           IF k.code \in {"Enter", "Esc"} THEN [st |-> pop_dialog(s), eff |-> "none"]
           ELSE [st |-> s, eff |-> "none"]
      [] d = "Help" ->
           IF k.code = "Esc" \/ (k.code = "Char" /\ k.ch = "?")
           THEN [st |-> pop_dialog(s), eff |-> "none"]
           ELSE [st |-> s, eff |-> "none"]

TerminalScreens == {"Closed", "AlreadySubmitted", "Done", "SaveLocal"}

\* handle_key: the session it leaves and the effect outside the session
\* (eff: "none", "submit" = do_submit, "quit" = save and quit,
\*  "cancel" = push_cancel.store(true))
handle_key(s, k, ed, pick, now) ==
    IF has_dialog(s) THEN handle_dialog_key(s, k)
    ELSE CASE s.screen = "Waiting" -> [st |-> handle_waiting_key(s, k), eff |-> "none"]
           [] s.screen = "Preamble" ->
                [st |-> handle_preamble_key(s, k, now), eff |-> "none"]
           [] s.screen = "Acknowledgment" ->
                [st |-> handle_ack_key(s, k, now), eff |-> "none"]
           [] s.screen = "Working" ->
                [st |-> handle_working_key(s, k, ed, pick), eff |-> "none"]
           [] s.screen \in TerminalScreens ->
                [st |-> IF k.code = "Enter" THEN [s EXCEPT !.should_quit = TRUE] ELSE s,
                 eff |-> "none"]
           [] s.screen = "PushRetrying" ->
                IF k.code = "Esc"
                THEN [st |-> [s EXCEPT !.screen = "Working"], eff |-> "cancel"]
                ELSE [st |-> s, eff |-> "none"]
           [] s.screen = "Pushing" -> [st |-> s, eff |-> "none"]

\* what a mouse event does to the session on the Working screen
MouseInputs ==
    { [m |-> "navigate", idx |-> i] : i \in 0 .. 1 }
    \cup { [m |-> "choice", idx |-> i] : i \in 0 .. 1 }
    \cup { [m |-> "done", idx |-> 0], [m |-> "flag", idx |-> 0] }

handle_mouse(s, m) ==
    IF s.screen # "Working" \/ has_dialog(s) THEN s
    ELSE CASE m.m = "navigate" -> navigate_to(s, m.idx)
           [] m.m = "done" -> request_done(s)
           [] m.m = "flag" -> toggle_flag(s)
           [] m.m = "choice" ->
                IF IsSome(current_question(s))
                THEN IF Unwrap(current_question(s)).kind = "SingleChoice"
                     THEN select_single_choice(s, m.idx)
                     ELSE IF Unwrap(current_question(s)).kind = "MultiChoice"
                     THEN toggle_multi_choice(s, m.idx)
                     ELSE s
                ELSE s

\* ------------------------------------------------------------ parser.rs
\* level-2 heading texts
TitlePlain == <<"3", ".", " ", "t">>
TitleMulti == <<"4", ".", " ", "(", "M", "u", "l", "t", "i", ")">>
TitleZero == <<"0", ".", " ", "t">>
TitleBare == <<"t">>
MultiMarker == <<"(", "M", "u", "l", "t", "i", ")">>

\* str::trim on a text without line feeds
RECURSIVE TrimStart(_)
TrimStart(t) == IF t # <<>> /\ Head(t) = " " THEN TrimStart(Tail(t)) ELSE t

RECURSIVE TrimEnd(_)
TrimEnd(t) ==
    IF t # <<>> /\ t[Len(t)] = " " THEN TrimEnd(SubSeq(t, 1, Len(t) - 1)) ELSE t

Trim(t) == TrimEnd(TrimStart(t))

\* str::contains
ContainsText(t, pat) ==
    \E i \in 1 .. Len(t) - Len(pat) + 1 : SubSeq(t, i, i + Len(pat) - 1) = pat

\* str::find(c): the first position of c, 0 when there is none
FindChar(t, c) ==
    IF \E i \in 1 .. Len(t) : t[i] = c
    THEN CHOOSE i \in 1 .. Len(t) : t[i] = c /\ \A k \in 1 .. i - 1 : t[k] # c
    ELSE 0

DigitChars == {"0", "1", "2", "3", "4", "5", "6", "7", "8", "9"}

\* str::parse::<u32> of a short digit string: None for anything else
RECURSIVE DigitsValue(_)
DigitsValue(t) ==
    IF t = <<>> THEN 0
    ELSE 10 * DigitsValue(SubSeq(t, 1, Len(t) - 1))
           + (CHOOSE d \in 0 .. 9 : Decimal(d) = <<t[Len(t)]>>)

ParseU32(t) ==
    IF t # <<>> /\ \A i \in 1 .. Len(t) : t[i] \in DigitChars
    THEN Some(DigitsValue(t))
    ELSE None

\* parse_h2_title: Some([number, title]) or None for Err
parse_h2_title(text) ==
    LET trimmed == Trim(text)
        dot_pos == FindChar(trimmed, ".")
    IN IF dot_pos = 0 THEN None
       ELSE LET number == ParseU32(Trim(SubSeq(trimmed, 1, dot_pos - 1)))
                title == Trim(SubSeq(trimmed, dot_pos + 1, Len(trimmed)))
            IN IF IsNone(number) THEN None
               ELSE Some([number |-> Unwrap(number), title |-> title])

\* u64 values are written in base 1024, lowest limb first, without high zero
\* limbs: 2^64 is limb 7 reaching 16
RECURSIVE Normalize(_)
Normalize(l) ==
    IF l # <<>> /\ l[Len(l)] = 0 THEN Normalize(SubSeq(l, 1, Len(l) - 1)) ELSE l

\* l * 10 + carry
RECURSIVE TimesTenPlus(_, _)
TimesTenPlus(l, carry) ==
    IF l = <<>> THEN (IF carry = 0 THEN <<>> ELSE <<carry>>)
    ELSE LET v == Head(l) * 10 + carry
         IN <<v % 1024>> \o TimesTenPlus(Tail(l), v \div 1024)

\* the value of a digit string
RECURSIVE DecimalValue(_)
DecimalValue(t) ==
    IF t = <<>> THEN <<>>
    ELSE Normalize(TimesTenPlus(DecimalValue(SubSeq(t, 1, Len(t) - 1)),
                                CHOOSE d \in 0 .. 9 : Decimal(d) = <<t[Len(t)]>>))

FitsU64(l) == Len(l) < 7 \/ (Len(l) = 7 /\ l[7] < 16)

\* l * 1024^k, not reduced
TimesKibi(l, k) == IF l = <<>> THEN <<>> ELSE [i \in 1 .. k |-> 0] \o l

\* a value reduced modulo 2^64
WrapU64(l) ==
    IF Len(l) < 7 THEN l
    ELSE Normalize(SubSeq(l, 1, 6) \o <<l[7] % 16>>)

\* str::parse::<u64>: an optional '+', then digits, at most u64::MAX
ParseU64(t) ==
    LET digits == IF t # <<>> /\ Head(t) = "+" THEN Tail(t) ELSE t IN
    IF digits # <<>> /\ (\A i \in 1 .. Len(digits) : digits[i] \in DigitChars)
       /\ FitsU64(DecimalValue(digits))
    THEN Some(DecimalValue(digits))
    ELSE None

UppercaseLetters ==
    << "A", "B", "C", "D", "E", "F", "G", "H", "I", "J", "K", "L", "M",
       "N", "O", "P", "Q", "R", "S", "T", "U", "V", "W", "X", "Y", "Z" >>

AsciiLowercase ==
    << "a", "b", "c", "d", "e", "f", "g", "h", "i", "j", "k", "l", "m",
       "n", "o", "p", "q", "r", "s", "t", "u", "v", "w", "x", "y", "z" >>

\* str::to_uppercase on ASCII text
to_uppercase(t) ==
    [i \in 1 .. Len(t) |->
        IF \E k \in 1 .. 26 : AsciiLowercase[k] = t[i]
        THEN UppercaseLetters[CHOOSE k \in 1 .. 26 : AsciiLowercase[k] = t[i]]
        ELSE t[i]]

\* str::strip_suffix: Some(rest) or None
strip_suffix(t, sfx) ==
    IF Len(t) >= Len(sfx) /\ SubSeq(t, Len(t) - Len(sfx) + 1, Len(t)) = sfx
    THEN Some(SubSeq(t, 1, Len(t) - Len(sfx)))
    ELSE None

\* n * 1024 * ... (k times) on u64: where a product passes 2^64 a build
\* with overflow checks panics and one without goes on with the wrapped value
RECURSIVE ScaledU64(_, _)
ScaledU64(l, k) ==
    IF k = 0 THEN {[kind |-> "some", v |-> l]}
    ELSE LET p == TimesKibi(l, 1) IN
         IF FitsU64(p) THEN ScaledU64(p, k - 1)
         ELSE {[kind |-> "panic"]} \cup ScaledU64(WrapU64(p), k - 1)

\* parse_size: the results the build can produce, Some(v), None or a panic
parse_size(text) ==
    LET s == to_uppercase(Trim(text))
        scaled(num, k) ==
            LET n == ParseU64(Trim(Unwrap(num))) IN
            IF IsSome(n) THEN ScaledU64(Unwrap(n), k) ELSE {[kind |-> "none"]}
    IN IF IsSome(strip_suffix(s, <<"G", "B">>)) THEN scaled(strip_suffix(s, <<"G", "B">>), 3)
       ELSE IF IsSome(strip_suffix(s, <<"M", "B">>)) THEN scaled(strip_suffix(s, <<"M", "B">>), 2)
       ELSE IF IsSome(strip_suffix(s, <<"K", "B">>)) THEN scaled(strip_suffix(s, <<"K", "B">>), 1)
       ELSE IF IsSome(strip_suffix(s, <<"B">>)) THEN scaled(strip_suffix(s, <<"B">>), 0)
       ELSE scaled(Some(s), 0)

\* (b'a' + choice_index) as char, for the bytes up to '~'
ByteChars ==
    << "a", "b", "c", "d", "e", "f", "g", "h", "i", "j", "k", "l", "m", "n", "o",
       "p", "q", "r", "s", "t", "u", "v", "w", "x", "y", "z", "{", "|", "}", "~" >>
ChoiceLabel(choice_index) == ByteChars[choice_index + 1]

\* the locals of parse_body before the first event
ParserStart ==
    [ pc |-> "reading",
      questions |-> <<>>,
      current_h2_text |-> <<>>,
      seen_h2 |-> FALSE,
      current_choices |-> <<>>,
      current_kind |-> None,
      current_hints |-> <<>>,
      in_hint_block |-> FALSE,
      hint_text |-> <<>>,
      choice_index |-> 0 ]

\* no max_size value is being parsed
SizeOff == [num |-> <<>>, suffix |-> <<>>, res |-> [kind |-> "off"]]

\* nothing of the document has been read
DocumentStart == [headings |-> 0, items |-> 0, texts |-> 0]

\* a session's document has been parsed before the session starts
ParserOff == [ParserStart EXCEPT !.pc = "off"]

\* finalize_question: the locals after it and whether it returned Ok
finalize_question(p) ==
    LET r == parse_h2_title(p.current_h2_text) IN
    IF IsNone(r) THEN [st |-> p, ok |-> FALSE]
    ELSE LET is_multi == ContainsText(Unwrap(r).title, MultiMarker)
             has_choices == p.current_choices # <<>>
             final_kind ==
                 IF has_choices
                 THEN IF is_multi THEN "MultiChoice" ELSE "SingleChoice"
                 ELSE IF IsSome(p.current_kind) THEN Unwrap(p.current_kind)
                 ELSE "Short"
             q == [ number |-> Unwrap(r).number,
                    title |-> Unwrap(r).title,
                    kind |-> final_kind,
                    choices |-> p.current_choices,
                    hints |-> p.current_hints ]
         IN [ st |-> [p EXCEPT !.questions = Append(p.questions, q),
                               !.current_choices = <<>>,
                               !.current_kind = IF has_choices THEN p.current_kind
                                                ELSE None,
                               !.current_hints = <<>>,
                               !.choice_index = 0],
              ok |-> TRUE ]

\* Start(Heading H2), Text(title), End(Heading H2)
on_heading2(p, title) ==
    LET f == IF p.seen_h2 THEN finalize_question(p) ELSE [st |-> p, ok |-> TRUE] IN
    IF ~f.ok THEN [p EXCEPT !.pc = "err"]
    ELSE [f.st EXCEPT !.current_h2_text = title, !.seen_h2 = TRUE]

\* Start(Item), TaskListMarker, Text(text), End(Item)
on_task_item(p, text) ==
    IF p.seen_h2
    THEN [p EXCEPT !.current_choices =
                       Append(p.current_choices,
                              [label |-> ChoiceLabel(p.choice_index), text |-> text]),
                   !.choice_index = p.choice_index + 1]
    ELSE p

\* Start(BlockQuote), Text(text), End(BlockQuote)
on_block_quote(p, text) ==
    IF p.seen_h2
    THEN CASE text = "short" -> [p EXCEPT !.current_kind = Some("Short")]
           [] text = "long" -> [p EXCEPT !.current_kind = Some("Long")]
           [] text = "file" -> [p EXCEPT !.current_kind = Some("File")]
           [] OTHER -> p
    ELSE p

\* Text(t) inside a paragraph: the :::hint and ::: markers, hint text, body text
on_paragraph_text(p, t) ==
    IF t = <<":", ":", ":", "h", "i", "n", "t">>
    THEN [p EXCEPT !.in_hint_block = TRUE, !.hint_text = <<>>]
    ELSE IF t = <<":", ":", ":">> /\ p.in_hint_block
    THEN [p EXCEPT !.in_hint_block = FALSE,
                   !.hint_text = <<>>,
                   !.current_hints =
                       IF p.hint_text # <<>> /\ p.seen_h2
                       THEN Append(p.current_hints, Trim(p.hint_text))
                       ELSE p.current_hints]
    ELSE IF p.in_hint_block
    THEN [p EXCEPT !.hint_text =
                       (IF p.hint_text # <<>> THEN p.hint_text \o <<" ">> ELSE <<>>)
                         \o t]
    ELSE p

\* the end of the events: the last question is finalized
on_end(p) ==
    LET f == IF p.seen_h2 THEN finalize_question(p) ELSE [st |-> p, ok |-> TRUE] IN
    IF f.ok THEN [f.st EXCEPT !.pc = "ok"] ELSE [p EXCEPT !.pc = "err"]

\* ------------------------------------------------------------ the program
VARIABLES
    size_job,     \* a max_size value of a file block quote and what parse_size made of it
    parser,       \* the locals of parse_body while the quiz document is read
    document,     \* how much of the document parse_body has read
    state,        \* the AppState of the running process
    is_git,       \* git::is_git_repo(repo_dir)
    limits,       \* how many submissions and failed pushes a run is followed for
    phase,        \* "off", "running" or "exited"
    runs_left,    \* how often the process can still be started
    disk,         \* response/answers.yaml and response/answers.tmp
    push_cancel,  \* the shared AtomicBool
    push_q,       \* the PushEvent channel
    workers,      \* the push_with_retry threads, in order of their spawn
    submits,      \* how many do_submit calls this process has made
    commits,      \* how many commits git holds
    timer,        \* the spawn_timer thread
    timer_q,      \* the TimerEvent channel
    faults_left,  \* how many save_state calls can still fail
    load_res      \* what load_state returned to this run of main.rs

vars == <<size_job, parser, document, state, is_git, limits, phase, runs_left, disk, push_cancel, push_q, workers,
          submits, commits, timer, timer_q, faults_left, load_res>>

WorkerIds == 1 .. MaxSubmits

\* a thread that has not been spawned
IdleWorker ==
    [pc |-> "idle", attempt |-> 0, wait_secs |-> 0, elapsed |-> 0, i |-> 0,
     fails |-> 0, cancel_requested |-> FALSE, sent |-> <<>>]

\* a worker whose first delay is one second
SpawnedWorker_first_wait_one ==
    [pc |-> "check", attempt |-> 0, wait_secs |-> 1, elapsed |-> 0, i |-> 0,
     fails |-> 0, cancel_requested |-> FALSE, sent |-> <<>>]

\* the locals of push_with_retry at its first loop iteration
SpawnedWorker ==
    [pc |-> "check", attempt |-> 0, wait_secs |-> 2, elapsed |-> 0, i |-> 0,
     fails |-> 0, cancel_requested |-> FALSE, sent |-> <<>>]

NoWorkers == [w \in WorkerIds |-> IdleWorker]

Running(w) == workers[w].pc \notin {"idle", "done"}

\* upper: the readings of end_time - now still ahead of the thread are below
\* it; top: its value when a run starts inside the time window
\* sent: what the thread has sent so far
TimerOff(top) ==
    [pc |-> "off", warned_two_min |-> FALSE, upper |-> 0, top |-> top,
     sent |-> <<>>]

\* the remaining seconds the timer thread can observe
two_minutes == 120
TimerVals == {0, 1, two_minutes, two_minutes + 1}
TimerTop == two_minutes + 2

PushEvent(ev, w, attempt, wait_secs, elapsed) ==
    [ev |-> ev, w |-> w, attempt |-> attempt, wait_secs |-> wait_secs,
     elapsed |-> elapsed]

\* no process, no threads, no messages
InitCommonSession ==
    /\ phase = "off"
    /\ push_cancel = FALSE
    /\ push_q = <<>>
    /\ workers = NoWorkers
    /\ submits = 0
    /\ commits = 0
    /\ timer_q = <<>>
    /\ load_res = "none"

\* a session starts once its document has been parsed
InitCommon ==
    /\ InitCommonSession
    /\ size_job = SizeOff
    /\ parser = ParserOff
    /\ document = DocumentStart

\* one run in a working directory without version control, no I/O errors
Init ==
    /\ InitCommon
    /\ \E q \in SessionQuizzes : state = AppState_new(q)
    /\ is_git = FALSE
    /\ limits = [submits |-> MaxSubmits, failures |-> MaxFailures]
    /\ disk = [snapshot |-> Absent, tmp |-> Absent]
    /\ timer = TimerOff(TimerTop)
    /\ runs_left = 1
    /\ faults_left = 0

\* a cloned repository, the quiz in its last second
InitPush ==
    /\ InitCommon
    /\ state = AppState_new(QuizPush)
    /\ is_git = TRUE
    /\ limits = [submits |-> MaxSubmits, failures |-> MaxFailures]
    /\ disk = [snapshot |-> Absent, tmp |-> Absent]
    /\ timer = TimerOff(1)
    /\ runs_left = 1
    /\ faults_left = 0

\* a cloned repository, one submission, the network down for as long as the
\* worker retries
InitWorker ==
    /\ InitCommon
    /\ state = AppState_new(QuizPush)
    /\ is_git = TRUE
    /\ limits = [submits |-> 1, failures |-> MaxBackoffs]
    /\ disk = [snapshot |-> Absent, tmp |-> Absent]
    /\ timer = TimerOff(1)
    /\ runs_left = 1
    /\ faults_left = 0

\* a cloned repository, a Long question, the quiz in its last second, the
\* network up
InitSubmit ==
    /\ InitCommon
    /\ state = AppState_new(QuizLong)
    /\ is_git = TRUE
    /\ limits = [submits |-> 1, failures |-> 0]
    /\ disk = [snapshot |-> Absent, tmp |-> Absent]
    /\ timer = TimerOff(1)
    /\ runs_left = 1
    /\ faults_left = 0

\* a snapshot of the same quiz document whose stored position lies past the
\* last question
StaleSnapshot(quiz) ==
    Complete([build_answers_yaml(AppState_new(quiz)) EXCEPT
                 !.current_question = Len(quiz.questions)])

\* a session that is killed and resumed, the quiz in its last second
InitResume ==
    /\ InitCommon
    /\ \E q \in ResumeQuizzes :
         /\ state = AppState_new(q)
         /\ \E snap \in {Absent, StaleSnapshot(q)} :
              disk = [snapshot |-> snap, tmp |-> Absent]
    /\ is_git = FALSE
    /\ limits = [submits |-> MaxSubmits, failures |-> MaxFailures]
    /\ timer = TimerOff(1)
    /\ runs_left = MaxRuns
    /\ faults_left = 0

\* restarts after kills, I/O errors, a damaged snapshot and an edited document
InitPersist ==
    /\ InitCommon
    /\ state = AppState_new(QuizMulti)
    /\ is_git = FALSE
    /\ limits = [submits |-> MaxSubmits, failures |-> MaxFailures]
    /\ \E snap \in {Absent, Corrupt} : disk = [snapshot |-> snap, tmp |-> Absent]
    /\ timer = TimerOff(TimerTop)
    /\ runs_left = MaxRuns
    /\ faults_left = MaxSaveFaults

\* the process dies: memory, threads and channels are gone, the disk stays
ProcessGone(ph) ==
    /\ phase' = ph
    /\ push_cancel' = FALSE
    /\ push_q' = <<>>
    /\ workers' = NoWorkers
    /\ submits' = 0
    /\ timer' = TimerOff(timer.top)
    /\ timer_q' = <<>>
    /\ load_res' = "none"

\* --clear is explored where the response directory holds something
ClearChoices(d) ==
    IF d.snapshot = Absent /\ d.tmp = Absent THEN {FALSE} ELSE BOOLEAN

\* main.rs run followed by run_tui up to the first loop iteration
Run ==
    /\ phase # "running"
    /\ runs_left > 0
    /\ \E clear \in ClearChoices(disk), window \in {"before", "within", "after"},
          existing \in {FALSE, is_git} :
         LET quiz == state.quiz
             d1 == IF clear THEN clear_state(disk) ELSE disk
             s0 == AppState_new(quiz)
             l == IF clear THEN [st |-> s0, res |-> "none"] ELSE load_state(s0, d1)
             s1 == l.st
             scr == IF is_git /\ existing THEN "AlreadySubmitted"
                    ELSE IF window = "before" THEN "Waiting"
                    ELSE IF window = "after" THEN "Closed"
                    ELSE IF IsSome(s1.started_at)
                            /\ (~s1.quiz.needs_ack \/ IsSome(s1.ack_data))
                    THEN "Working"
                    ELSE "Preamble"
             s2 == [s1 EXCEPT !.screen = scr]
             s3 == IF s2.quiz.questions # <<>>
                   THEN update_input_mode(load_text_input_for_current(
                          [s2 EXCEPT !.visited[s2.quiz.questions[1].number] = TRUE]))
                   ELSE s2
         IN /\ state' = s3
            /\ disk' = d1
            /\ load_res' = l.res
            /\ timer' = [timer EXCEPT
                           !.pc = "run", !.warned_two_min = FALSE, !.sent = <<>>,
                           !.upper = IF window = "after" THEN 1 ELSE timer.top]
    /\ phase' = "running"
    /\ runs_left' = runs_left - 1
    /\ UNCHANGED <<size_job, parser, document, is_git, limits, push_cancel, push_q, workers, submits, commits,
                   timer_q, faults_left>>

\* the process is killed between two events
Crash ==
    /\ phase = "running"
    /\ runs_left > 0
    /\ ProcessGone("off")
    /\ state' = AppState_new(state.quiz)
    /\ UNCHANGED <<size_job, parser, document, is_git, limits, runs_left, disk, commits, faults_left>>

\* main_loop: if state.should_quit { break }
MainExit ==
    /\ phase = "running"
    /\ state.should_quit
    /\ ProcessGone("exited")
    /\ UNCHANGED <<state, size_job, parser, document, is_git, limits, runs_left, disk, commits, faults_left>>

SaveFaults == {"mkdir_fails", "write_fails", "rename_fails"}
FaultCost(o) == IF o \in SaveFaults THEN 1 ELSE 0

\* the outcomes a save may have with f I/O errors left: errors and kills
\* are bounded
OutcomesWith(f) ==
    {"ok"} \cup (IF f > 0 THEN SaveFaults ELSE {})
           \cup (IF runs_left > 0 THEN SaveCrashes ELSE {})
OutcomesNow == OutcomesWith(faults_left)

\* the process is killed inside a save_state call
KilledInSave ==
    /\ ProcessGone("off")
    /\ state' = AppState_new(state.quiz)
    /\ UNCHANGED <<size_job, parser, document, is_git, limits, runs_left, commits>>

\* a save_state call made while handling an event, with session s
SaveStep(s, d, o) ==
    /\ disk' = save_state(s, d, o)
    /\ faults_left' = faults_left - FaultCost(o)

\* an auto-save whose error ends main_loop: save_state(..)?
AutoSave_propagating(s, cancel, ws) ==
    IF s.screen = "Working"
    THEN \E o \in OutcomesNow :
           /\ SaveStep(s, disk, o)
           /\ IF o \in SaveCrashes
              THEN KilledInSave
              ELSE IF o \in SaveFaults
              THEN /\ state' = s
                   /\ ProcessGone("exited")
                   /\ UNCHANGED <<size_job, parser, document, is_git, limits, runs_left, commits>>
              ELSE /\ state' = s
                   /\ push_cancel' = cancel
                   /\ workers' = ws
                   /\ UNCHANGED <<size_job, parser, document, is_git, limits, phase, runs_left, push_q, submits,
                                  commits, timer, timer_q, load_res>>
    ELSE /\ state' = s
         /\ push_cancel' = cancel
         /\ workers' = ws
         /\ UNCHANGED <<size_job, parser, document, is_git, limits, phase, runs_left, disk, push_q, submits,
                        commits, timer, timer_q, faults_left, load_res>>

\* main_loop: if state.screen == Screen::Working { let _ = save_state(..) },
\* s is the session the handler left, cancel the flag and ws the workers
AutoSave(s, cancel, ws) ==
    IF s.screen = "Working"
    THEN \E o \in OutcomesNow :
           /\ SaveStep(s, disk, o)
           /\ IF o \in SaveCrashes
              THEN KilledInSave
              ELSE /\ state' = s
                   /\ push_cancel' = cancel
                   /\ workers' = ws
                   /\ UNCHANGED <<size_job, parser, document, is_git, limits, phase, runs_left, push_q, submits,
                                  commits, timer, timer_q, load_res>>
    ELSE /\ state' = s
         /\ push_cancel' = cancel
         /\ workers' = ws
         /\ UNCHANGED <<size_job, parser, document, is_git, limits, phase, runs_left, disk, push_q, submits,
                        commits, timer, timer_q, faults_left, load_res>>

\* ConfirmQuit: save_state in the handler, then the auto-save of main_loop
QuitSave(s) ==
    \E o1 \in OutcomesNow :
      IF o1 \in SaveCrashes
      THEN /\ SaveStep(s, disk, o1)
           /\ KilledInSave
      ELSE \E o2 \in OutcomesWith(faults_left - FaultCost(o1)) :
             /\ disk' = save_state(s, save_state(s, disk, o1), o2)
             /\ faults_left' = faults_left - FaultCost(o1) - FaultCost(o2)
             /\ IF o2 \in SaveCrashes
                THEN KilledInSave
                ELSE /\ state' = s
                     /\ UNCHANGED <<size_job, parser, document, is_git, limits, phase, runs_left, push_cancel, push_q,
                                    workers, submits, commits, timer, timer_q,
                                    load_res>>

\* do_submit; g is how build_response, git add and git commit end
SubmitOutcomes == {"ok", "build_fails", "git_fails"}

\* the body of do_submit; git is what is_git_repo returns and tq the timer
\* channel the caller leaves
submit_pipeline(git, s, now, g, tq) ==
    LET s1 == [s EXCEPT !.submitted_at = Some(now), !.screen = "Pushing"] IN
    IF g = "build_fails"
    THEN /\ state' = s1
         /\ ProcessGone("exited")
         /\ UNCHANGED <<size_job, parser, document, is_git, limits, runs_left, disk, commits, faults_left>>
    ELSE \E o \in OutcomesNow :
           /\ SaveStep(s1, disk, o)
           /\ IF o \in SaveCrashes
              THEN KilledInSave
              ELSE IF git
              THEN IF g = "git_fails"
                   THEN /\ state' = s1
                        /\ ProcessGone("exited")
                        /\ UNCHANGED <<size_job, parser, document, is_git, limits, runs_left, commits>>
                   ELSE /\ state' = s1
                        /\ commits' = commits + 1
                        /\ push_cancel' = FALSE
                        /\ submits' = submits + 1
                        /\ workers' = [workers EXCEPT ![submits + 1] = SpawnedWorker]
                        /\ timer_q' = tq
                        /\ UNCHANGED <<size_job, parser, document, is_git, limits, phase, runs_left, push_q, timer,
                                       load_res>>
              ELSE /\ state' = s1
                   /\ push_q' = Append(push_q, PushEvent("Timeout", 0, 0, 0, 0))
                   /\ timer_q' = tq
                   /\ UNCHANGED <<size_job, parser, document, is_git, limits, phase, runs_left, push_cancel, workers, submits,
                                  commits, timer, load_res>>

\* a do_submit that does not ask whether the directory is a repository
do_submit_without_repo_test(s, now, g, tq) == submit_pipeline(TRUE, s, now, g, tq)

do_submit(s, now, g, tq) == submit_pipeline(is_git, s, now, g, tq)

\* keys are offered while the text they type stays within MaxTextLen (the
\* name within MaxNameLen) and within the characters TypedChars and NL
KeyOffered(s, k) ==
    LET st == handle_key(s, k, None, None, 1).st
        typed == IF k.code = "Enter" THEN NL ELSE k.ch
    IN /\ (st.current_question = s.current_question
           /\ Len(st.text_input) = Len(s.text_input) + 1)
          => (typed \in TypedChars \cup {NL} /\ Len(st.text_input) <= MaxTextLen)
       /\ Len(st.ack_name) > Len(s.ack_name)
          => (typed \in TypedChars /\ Len(st.ack_name) <= MaxNameLen)

\* the user has asked to cancel the submission on the screen: the worker
\* spawned last
CancelRequested(ws) ==
    [w \in WorkerIds |->
       IF w = submits /\ ws[w].pc \notin {"idle", "done"}
       THEN [ws[w] EXCEPT !.cancel_requested = TRUE] ELSE ws[w]]

\* the clock readings that make a difference to the handling of k
NowChoices(s, k) ==
    IF /\ \A t \in Times : handle_key(s, k, None, None, t).st
                              = handle_key(s, k, None, None, 1).st
       /\ handle_key(s, k, None, None, 1).eff # "submit"
    THEN {1} ELSE Times

\* one key event of main_loop: handle_key, then the auto-save
KeyEvent(k) ==
    /\ phase = "running"
    /\ ~state.should_quit
    /\ KeyOffered(state, k)
    /\ \E ed \in (IF k = CtrlKey("e") THEN EditorResults ELSE {None}),
          pick \in (IF k = CtrlKey("a") THEN PickResults ELSE {None}),
          now \in NowChoices(state, k) :
         LET r == handle_key(state, k, ed, pick, now) IN
         CASE r.eff = "none" -> AutoSave(r.st, push_cancel, workers)
           [] r.eff = "cancel" -> AutoSave(r.st, TRUE, CancelRequested(workers))
           [] r.eff = "quit" -> QuitSave([r.st EXCEPT !.should_quit = TRUE])
           [] r.eff = "submit" ->
                /\ submits < limits.submits
                /\ \E g \in SubmitOutcomes : do_submit(r.st, now, g, timer_q)

\* one mouse event of main_loop: handle_mouse, then the auto-save
MouseEvent(m) ==
    /\ phase = "running"
    /\ ~state.should_quit
    /\ state.screen = "Working"
    /\ CASE m.m = "navigate" -> m.idx < Len(state.quiz.questions)
         [] m.m = "choice" -> /\ IsSome(current_question(state))
                              /\ m.idx < Len(Unwrap(current_question(state)).choices)
         [] OTHER -> TRUE
    /\ AutoSave(handle_mouse(state, m), push_cancel, workers)

\* handle_timer for the event at the head of the timer channel
TimerEvent ==
    /\ phase = "running"
    /\ timer_q # <<>>
    /\ LET ev == Head(timer_q) IN
       CASE ev.ev = "Tick" ->
              /\ state' = [state EXCEPT
                    !.remaining_seconds = Some(ev.secs),
                    !.screen = IF state.screen = "Waiting" /\ ev.secs <= 0
                               THEN "Preamble" ELSE state.screen]
              /\ timer_q' = Tail(timer_q)
              /\ UNCHANGED <<size_job, parser, document, is_git, limits, phase, runs_left, disk, push_cancel, push_q, workers,
                             submits, commits, timer, faults_left, load_res>>
         [] ev.ev = "TwoMinuteWarning" ->
              /\ state' = IF state.screen = "Working" /\ ~has_dialog(state)
                          THEN push_dialog(state, "TwoMinuteWarning") ELSE state
              /\ timer_q' = Tail(timer_q)
              /\ UNCHANGED <<size_job, parser, document, is_git, limits, phase, runs_left, disk, push_cancel, push_q, workers,
                             submits, commits, timer, faults_left, load_res>>
         [] ev.ev = "TimeExpired" ->
              LET s1 == [state EXCEPT !.remaining_seconds = Some(0)] IN
              IF state.screen = "Working"
              THEN /\ submits < limits.submits
                   /\ \E now \in Times, g \in SubmitOutcomes :
                        do_submit(save_current_text_input(s1), now, g, Tail(timer_q))
              ELSE /\ state' = s1
                   /\ timer_q' = Tail(timer_q)
                   /\ UNCHANGED <<size_job, parser, document, is_git, limits, phase, runs_left, disk, push_cancel, push_q,
                                  workers, submits, commits, timer, faults_left, load_res>>

\* a handle_push that shows a conflict as one more retry
handle_push_conflict_retrying(s, ev) ==
    CASE ev.ev = "Success" -> [s EXCEPT !.screen = "Done"]
      [] ev.ev \in {"Retrying", "Conflict"} ->
                               [s EXCEPT !.screen = "PushRetrying",
                                         !.push_attempt = ev.attempt,
                                         !.push_retry_secs = ev.wait_secs,
                                         !.push_elapsed_secs = ev.elapsed]
      [] ev.ev = "Timeout" -> [s EXCEPT !.screen = "SaveLocal"]
      [] ev.ev = "Cancelled" -> [s EXCEPT !.screen = "Working"]

\* handle_push for the event at the head of the push channel
handle_push(s, ev) ==
    CASE ev.ev = "Success" -> [s EXCEPT !.screen = "Done"]
      [] ev.ev = "Retrying" -> [s EXCEPT !.screen = "PushRetrying",
                                         !.push_attempt = ev.attempt,
                                         !.push_retry_secs = ev.wait_secs,
                                         !.push_elapsed_secs = ev.elapsed]
      [] ev.ev = "Timeout" -> [s EXCEPT !.screen = "SaveLocal"]
      [] ev.ev = "Cancelled" -> [s EXCEPT !.screen = "Working"]
      [] ev.ev = "Conflict" -> [s EXCEPT !.screen = "AlreadySubmitted"]

PushEventHandled ==
    /\ phase = "running"
    /\ push_q # <<>>
    /\ state' = handle_push(state, Head(push_q))
    /\ disk' = IF Head(push_q).ev = "Success" THEN clear_state(disk) ELSE disk
    /\ push_q' = Tail(push_q)
    /\ UNCHANGED <<size_job, parser, document, is_git, limits, phase, runs_left, push_cancel, workers, submits, commits,
                   timer, timer_q, faults_left, load_res>>

\* ---------------------------------------------------- push_with_retry
max_elapsed == 600

\* the event built before the attempt counter is advanced
Msg_attempt_not_counted(w, ev) ==
    PushEvent(ev, w, workers[w].attempt - 1, workers[w].wait_secs,
              workers[w].elapsed)

Msg(w, ev) ==
    PushEvent(ev, w, workers[w].attempt, workers[w].wait_secs, workers[w].elapsed)

Send(w, ev) == push_q' = Append(push_q, Msg(w, ev))

\* sent: what the thread has sent so far
Sent(w, ev) == Append(workers[w].sent, Msg(w, ev))

\* the backoff without its cap
next_wait_uncapped(wait_secs) == wait_secs * 2

\* the backoff without its doubling
next_wait_constant(wait_secs) == wait_secs

\* wait_secs = (wait_secs * 2).min(30)
next_wait(wait_secs) == Min(wait_secs * 2, 30)

\* loop head: if cancel.load() { send(Cancelled); return }  attempt += 1
WorkerCheck(w) ==
    /\ phase = "running"
    /\ workers[w].pc = "check"
    /\ IF push_cancel
       THEN /\ Len(push_q) < MaxQueue
            /\ Send(w, "Cancelled")
            /\ workers' = [workers EXCEPT ![w].pc = "done",
                                          ![w].sent = Sent(w, "Cancelled")]
       ELSE /\ workers' = [workers EXCEPT ![w].pc = "push",
                                          ![w].attempt = workers[w].attempt + 1]
            /\ UNCHANGED push_q
    /\ UNCHANGED <<state, size_job, parser, document, is_git, limits, phase, runs_left, disk, push_cancel, submits, commits,
                   timer, timer_q, faults_left, load_res>>

\* git_push returns: Ok, Err("CONFLICT:..") or Err("NETWORK:..")
PushResults == {"Ok", "Conflict", "Network"}

WorkerPush(w, res) ==
    /\ phase = "running"
    /\ workers[w].pc = "push"
    /\ Len(push_q) < MaxQueue
    /\ CASE res = "Ok" ->
              /\ Send(w, "Success")
              /\ workers' = [workers EXCEPT ![w].pc = "done",
                                            ![w].sent = Sent(w, "Success")]
         [] res = "Conflict" ->
              /\ Send(w, "Conflict")
              /\ workers' = [workers EXCEPT ![w].pc = "done",
                                            ![w].sent = Sent(w, "Conflict")]
         [] res = "Network" ->
              /\ workers[w].fails < limits.failures
              /\ IF workers[w].elapsed >= max_elapsed
                 THEN /\ Send(w, "Timeout")
                      /\ workers' = [workers EXCEPT ![w].pc = "done",
                                        ![w].sent = Sent(w, "Timeout")]
                 ELSE /\ Send(w, "Retrying")
                      /\ workers' = [workers EXCEPT ![w].pc = "wait", ![w].i = 0,
                                        ![w].fails = workers[w].fails + 1,
                                        ![w].sent = Sent(w, "Retrying")]
    /\ UNCHANGED <<state, size_job, parser, document, is_git, limits, phase, runs_left, disk, push_cancel, submits, commits,
                   timer, timer_q, faults_left, load_res>>

\* one iteration of: for _ in 0..wait_secs { if cancel.load() {..} sleep(1s);
\* elapsed += 1 }, and after the last one wait_secs = (wait_secs * 2).min(30)
WorkerWait(w) ==
    /\ phase = "running"
    /\ workers[w].pc = "wait"
    /\ IF push_cancel
       THEN /\ Len(push_q) < MaxQueue
            /\ Send(w, "Cancelled")
            /\ workers' = [workers EXCEPT ![w].pc = "done",
                                          ![w].sent = Sent(w, "Cancelled")]
       ELSE /\ UNCHANGED push_q
            /\ IF workers[w].i + 1 < workers[w].wait_secs
               THEN workers' = [workers EXCEPT
                                  ![w].elapsed = workers[w].elapsed + 1,
                                  ![w].i = workers[w].i + 1]
               ELSE workers' = [workers EXCEPT
                                  ![w].elapsed = workers[w].elapsed + 1,
                                  ![w].i = 0,
                                  ![w].wait_secs = next_wait(workers[w].wait_secs),
                                  ![w].pc = "check"]
    /\ UNCHANGED <<state, size_job, parser, document, is_git, limits, phase, runs_left, disk, push_cancel, submits, commits,
                   timer, timer_q, faults_left, load_res>>

\* ------------------------------------------------------------ timer.rs
TimerMsg(ev, secs) == [ev |-> ev, secs |-> secs]

\* a warning whenever the remaining time is at most two minutes
two_minute_warning_due_every_second(secs, warned_two_min) ==
    secs <= two_minutes /\ secs > 0

\* if secs <= 120 && secs > 0 && !warned_two_min
two_minute_warning_due(secs, warned_two_min) ==
    secs <= two_minutes /\ secs > 0 /\ ~warned_two_min

\* one iteration of the loop of spawn_timer; secs is end_time - now
TimerStep ==
    /\ phase = "running"
    /\ timer.pc = "run"
    /\ \E secs \in TimerVals :
         /\ secs < timer.upper
         /\ LET out == IF secs <= 0
                       THEN <<TimerMsg("TimeExpired", 0)>>
                       ELSE IF two_minute_warning_due(secs, timer.warned_two_min)
                       THEN <<TimerMsg("TwoMinuteWarning", 0), TimerMsg("Tick", secs)>>
                       ELSE <<TimerMsg("Tick", secs)>>
            IN /\ Len(timer_q) + Len(out) <= MaxQueue
               /\ timer_q' = timer_q \o out
               /\ timer' = [timer EXCEPT
                     !.pc = IF secs <= 0 THEN "done" ELSE "run",
                     !.warned_two_min =
                        timer.warned_two_min
                          \/ (secs > 0 /\ two_minute_warning_due(secs, timer.warned_two_min)),
                     !.upper = secs,
                     !.sent = timer.sent \o out]
    /\ UNCHANGED <<state, size_job, parser, document, is_git, limits, phase, runs_left, disk, push_cancel, push_q, workers,
                   submits, commits, faults_left, load_res>>

\* the quiz document is edited while the program is not running
EditDocument ==
    /\ phase # "running"
    /\ state.quiz.quiz_hash = "h1"
    /\ state' = [state EXCEPT !.quiz.quiz_hash = "h2"]
    /\ UNCHANGED <<size_job, parser, document, is_git, limits, phase, runs_left, disk, push_cancel, push_q, workers,
                   submits, commits, timer, timer_q, faults_left, load_res>>

\* ------------------------------------------------------ specifications
\* the interactive session and its snapshot, without version control
Next ==
    \/ Run
    \/ MainExit
    \/ \E k \in Keys : KeyEvent(k)
    \/ \E m \in MouseInputs : MouseEvent(m)
    \/ PushEventHandled

Spec == Init /\ [][Next]_vars

\* the keys of a submission
PushKeys ==
    { PlainKey("Enter"), PlainKey("Esc"), CtrlKey("s"), CtrlKey("h") }

\* the submission pipeline in a cloned repository
NextPush ==
    \/ Run
    \/ MainExit
    \/ \E k \in PushKeys : KeyEvent(k)
    \/ TimerStep
    \/ TimerEvent
    \/ PushEventHandled
    \/ \E w \in WorkerIds : WorkerCheck(w)
    \/ \E w \in WorkerIds, res \in PushResults : WorkerPush(w, res)
    \/ \E w \in WorkerIds : WorkerWait(w)

SpecPush == InitPush /\ [][NextPush]_vars

\* the keys that submit and cancel
WorkerKeys ==
    { PlainKey("Enter"), PlainKey("Esc"), CtrlKey("s") }

\* one push worker from its spawn to its terminal event
NextWorker ==
    \/ Run
    \/ MainExit
    \/ \E k \in WorkerKeys : KeyEvent(k)
    \/ PushEventHandled
    \/ \E w \in WorkerIds : WorkerCheck(w)
    \/ \E w \in WorkerIds, res \in PushResults : WorkerPush(w, res)
    \/ \E w \in WorkerIds : WorkerWait(w)

SpecWorker == InitWorker /\ [][NextWorker]_vars

\* the keys that type, leave the text field, submit and confirm
SubmitKeys ==
    { PlainKey("Enter"), PlainKey("Esc"), CharKey("x"), CtrlKey("s") }

\* typing up to a submission by the user or by the expiry of the time
NextSubmit ==
    \/ Run
    \/ MainExit
    \/ \E k \in SubmitKeys : KeyEvent(k)
    \/ TimerStep
    \/ TimerEvent
    \/ PushEventHandled
    \/ \E w \in WorkerIds : WorkerCheck(w)
    \/ \E w \in WorkerIds, res \in PushResults : WorkerPush(w, res)

SpecSubmit == InitSubmit /\ [][NextSubmit]_vars

\* the keys that answer, reveal hints, mark and move between questions
ResumeKeys ==
    { PlainKey("Enter"), PlainKey("Esc"), CharKey("a"), CharKey("x"),
      CtrlKey("h"), CtrlKey("a"), Key("Down", "", TRUE), Key("Up", "", TRUE) }

\* sessions resumed from their snapshot while the timer thread runs
NextResume ==
    \/ Run
    \/ Crash
    \/ MainExit
    \/ \E k \in ResumeKeys : KeyEvent(k)
    \/ TimerStep
    \/ TimerEvent
    \/ PushEventHandled

SpecResume == InitResume /\ [][NextResume]_vars

\* the keys that start, answer, mark and leave a session
PersistKeys ==
    { PlainKey("Enter"), PlainKey("Esc"), CharKey("a"), CtrlKey("n"), CtrlKey("q") }

\* the session across kills and restarts
NextPersist ==
    \/ Run
    \/ Crash
    \/ EditDocument
    \/ MainExit
    \/ \E k \in PersistKeys : KeyEvent(k)

SpecPersist == InitPersist /\ [][NextPersist]_vars

\* ------------------------------------------------------------- properties
\* C1: at any time at most one push worker is running, that is, has been
\* spawned by do_submit and has not yet sent its terminal event
C1_one_push_worker ==
    Cardinality({ w \in WorkerIds : Running(w) }) <= 1

\* C2: once the user has asked to cancel a submission, its worker starts no
\* further push attempt: it never goes from the head of its loop into git_push
C2_cancelled_worker_stops ==
    [][ \A w \in WorkerIds :
          workers[w].cancel_requested
          => ~(workers[w].pc = "check" /\ workers'[w].pc = "push") ]_vars

\* C3: no question is marked done and flagged at the same time
C3_done_excludes_flag ==
    \A n \in Numbers(state.quiz) : ~(state.done_marks[n] /\ state.flags[n])

\* C3 witness: one question is done while another is flagged
C3_witness ==
    \E a, b \in Numbers(state.quiz) :
      a # b /\ state.done_marks[a] /\ state.flags[b] /\ state.visited[a]

\* C4: a question marked done has a non-empty answer: for the current
\* Short/Long question non-empty text in the edit buffer, otherwise a
\* non-empty selection, text or file list in answers
C4_done_has_answer ==
    \A n \in Numbers(state.quiz) :
      state.done_marks[n] =>
        IF is_current_text(state) /\ current_question_number(state) = n
        THEN state.text_input # <<>>
        ELSE /\ IsSome(state.answers[n])
             /\ LET a == Unwrap(state.answers[n]) IN
                \/ IsSome(a.selected) /\ Unwrap(a.selected) # <<>>
                \/ IsSome(a.text) /\ Unwrap(a.text) # <<>>
                \/ IsSome(a.files) /\ Unwrap(a.files) # <<>>

\* C5: toggle_done on a current question that is not done and has no answer
\* returns false and leaves answers, done_marks, flags and the text buffer as
\* they are
C5_toggle_done_unanswered ==
    LET qnum == current_question_number(state)
        r == toggle_done(state)
    IN ( /\ IsSome(current_question(state))
         /\ ~state.done_marks[qnum]
         /\ IF is_current_text(state) THEN state.text_input = <<>>
            ELSE IsNone(state.answers[qnum]) )
       => /\ r.ret = FALSE
          /\ r.st.answers = state.answers
          /\ r.st.done_marks = state.done_marks
          /\ r.st.flags = state.flags
          /\ r.st.text_input = state.text_input

\* C5 witness: Ctrl+N on a flagged question without an answer has been
\* refused
C5_witness ==
    /\ top_dialog(state) = Some("DoneRequiresAnswer")
    /\ state.flags[current_question_number(state)]
    /\ ~state.done_marks[current_question_number(state)]
    /\ IsNone(state.answers[current_question_number(state)])
    /\ state.text_input = <<>>

\* C6: the snapshot save_state writes of the session, read by load_state
\* into a fresh session on the same document, gives back the position, the
\* answers, the flags, the done marks, the hint counts, the two time stamps
\* and the acknowledgment
C6_save_load_round_trip ==
    phase = "running" =>
      LET l == load_state(AppState_new(state.quiz),
                          save_state(state, disk, "ok"))
      IN /\ l.res = "Ok_true"
         /\ l.st.current_question = state.current_question
         /\ l.st.answers = state.answers
         /\ l.st.flags = state.flags
         /\ l.st.done_marks = state.done_marks
         /\ l.st.hints_revealed = state.hints_revealed
         /\ l.st.started_at = state.started_at
         /\ l.st.submitted_at = state.submitted_at
         /\ l.st.ack_data = state.ack_data

C8_failed_load_ends_run ==
    [][ load_res' = "Err"
        => (phase' # "running" /\ disk'.snapshot = disk.snapshot) ]_vars

\* C9: on the Working screen, once an event is handled, the snapshot holds
\* for every question the answer of the session, the text in the edit buffer
\* of the current Short/Long question included
C9_snapshot_holds_buffer ==
    (phase = "running" /\ state.screen = "Working")
    => /\ disk.snapshot.kind = "doc"
       /\ \A i \in 1 .. Len(state.quiz.questions) :
            disk.snapshot.doc.questions[i].answer
              = build_answers_yaml(save_current_text_input(state)).questions[i].answer

\* C10: a kill of the process, inside save_state or between two events,
\* leaves at the snapshot path the previous content or a complete document
C10_snapshot_never_partial ==
    [][ (phase = "running" /\ phase' = "off")
        => \/ disk'.snapshot = disk.snapshot
           \/ /\ disk'.snapshot.kind = "doc"
              /\ disk'.snapshot.doc.quiz_file_hash = state.quiz.quiz_hash ]_vars

\* C10 witness: the process has been killed inside fs::write, over an
\* earlier snapshot
C10_witness ==
    /\ phase = "off"
    /\ disk.tmp.kind = "partial"
    /\ disk.snapshot.kind = "doc"
    /\ disk.tmp.doc # disk.snapshot.doc

\* the events worker w has sent
sent(w) == workers[w].sent

\* C11: the Retrying event of the k-th failed push carries attempt = k and
\* wait_secs = min(2^k, 30), and that many seconds are waited before the
\* worker sends its next event, unless the wait is cancelled
C11_backoff_schedule ==
    \A w \in WorkerIds : \A k \in 1 .. Len(sent(w)) :
      sent(w)[k].ev = "Retrying" =>
        /\ sent(w)[k].attempt = k
        /\ sent(w)[k].wait_secs = Min(2 ^ k, 30)
        /\ (k < Len(sent(w)) /\ sent(w)[k + 1].ev # "Cancelled")
             => sent(w)[k + 1].elapsed = sent(w)[k].elapsed + Min(2 ^ k, 30)
        /\ (k = Len(sent(w)) /\ workers[w].pc = "wait")
             => /\ workers[w].wait_secs = Min(2 ^ k, 30)
                /\ workers[w].elapsed = sent(w)[k].elapsed + workers[w].i

\* a worker has failed seven times: the delays 2, 4, 8, 16 and the cap
C11_witness ==
    \E w \in WorkerIds :
      /\ Len(sent(w)) >= 7
      /\ sent(w)[7].ev = "Retrying"
      /\ sent(w)[7].wait_secs = 30
      /\ sent(w)[7].elapsed = 2 + 4 + 8 + 16 + 30 + 30

\* the event worker w sent last
last_sent(w) == sent(w)[Len(sent(w))]

\* C12: a worker whose push succeeds on attempt 3 has sent exactly
\* Retrying, Retrying, Success, at least 2 + 4 seconds of backoff lie before
\* the Success, and once the main loop has handled it the screen is Done
C12_two_retries_then_done ==
    \A w \in WorkerIds :
      (sent(w) # <<>> /\ last_sent(w).ev = "Success" /\ last_sent(w).attempt = 3)
        => /\ Len(sent(w)) = 3
           /\ sent(w)[1].ev = "Retrying"
           /\ sent(w)[2].ev = "Retrying"
           /\ last_sent(w).elapsed >= 2 + 4
           /\ (phase = "running" /\ push_q = <<>>) => state.screen = "Done"

\* the Success of a third attempt has been handled
C12_witness ==
    \E w \in WorkerIds :
      /\ Len(sent(w)) = 3
      /\ sent(w)[3].ev = "Success"
      /\ sent(w)[3].attempt = 3
      /\ ~workers[w].cancel_requested
      /\ push_q = <<>>
      /\ state.screen = "Done"

\* C13: Conflict is the last event of its worker, the attempts before it
\* each sent one Retrying and the rejected attempt none (none at all when the
\* first attempt is rejected), the worker has ended without a further attempt,
\* and once the main loop has handled the event the screen is AlreadySubmitted
C13_conflict_is_terminal ==
    \A w \in WorkerIds : \A k \in 1 .. Len(sent(w)) :
      sent(w)[k].ev = "Conflict" =>
        /\ k = Len(sent(w))
        /\ sent(w)[k].attempt = k
        /\ \A j \in 1 .. k - 1 : sent(w)[j].ev = "Retrying" /\ sent(w)[j].attempt = j
        /\ workers[w].pc = "done"
        /\ workers[w].attempt = k
        /\ (phase = "running" /\ push_q = <<>>) => state.screen = "AlreadySubmitted"

\* a conflict on the first attempt has been handled
C13_witness ==
    \E w \in WorkerIds :
      /\ sent(w) # <<>>
      /\ sent(w)[1].ev = "Conflict"
      /\ push_q = <<>>
      /\ state.screen = "AlreadySubmitted"

\* C14: a worker sends Timeout only when its cumulative backoff wait has
\* exceeded max_elapsed, and once the main loop has handled the event the
\* screen is SaveLocal and the snapshot is still on disk
C14_timeout_after_ceiling ==
    \A w \in WorkerIds : \A k \in 1 .. Len(sent(w)) :
      sent(w)[k].ev = "Timeout" =>
        /\ sent(w)[k].elapsed > max_elapsed
        /\ (phase = "running" /\ push_q = <<>>)
             => (state.screen = "SaveLocal" /\ disk.snapshot # Absent)

\* the main loop handles Esc on the PushRetrying screen
EscOnPushRetrying ==
    /\ phase = "running"
    /\ phase' = "running"
    /\ state.screen = "PushRetrying"
    /\ state'.screen = "Working"
    /\ push_q' = push_q

\* C15: the step in which Esc on PushRetrying returns to Working leaves
\* answers, flags, done_marks, hints_revealed and the snapshot as they were,
\* and every later do_submit stamps submitted_at, commits and spawns a worker
C15_cancel_keeps_work ==
    [][ /\ EscOnPushRetrying
          => /\ state'.answers = state.answers
             /\ state'.flags = state.flags
             /\ state'.done_marks = state.done_marks
             /\ state'.hints_revealed = state.hints_revealed
             /\ disk'.snapshot = disk.snapshot
        /\ (phase' = "running" /\ submits' = submits + 1)
          => /\ IsSome(state'.submitted_at)
             /\ commits' = commits + 1
             /\ workers'[submits'] = SpawnedWorker ]_vars

\* C16: while a push worker is running and the screen is Pushing or
\* PushRetrying, handle_key answers Esc by requesting cancellation
C16_esc_requests_cancel ==
    ( /\ phase = "running"
      /\ ~state.should_quit
      /\ state.screen \in {"Pushing", "PushRetrying"}
      /\ \E w \in WorkerIds : Running(w) )
      => handle_key(state, PlainKey("Esc"), None, None, 1).eff = "cancel"

\* the main loop of this process has handled a Success event
SuccessHandled ==
    \E w \in WorkerIds :
      /\ sent(w) # <<>>
      /\ last_sent(w).ev = "Success"
      /\ \A i \in 1 .. Len(push_q) : ~(push_q[i].ev = "Success" /\ push_q[i].w = w)

\* C17: the step that handles Success sets the screen to Done and removes
\* the snapshot, and no step after it puts a snapshot on disk
C17_published_clears_snapshot ==
    [][ /\ ( /\ phase = "running"
             /\ push_q # <<>>
             /\ Head(push_q).ev = "Success"
             /\ push_q' = Tail(push_q)
             /\ phase' = "running" )
          => (state'.screen = "Done" /\ disk'.snapshot = Absent)
        /\ SuccessHandled => disk'.snapshot = Absent ]_vars

\* C18: outside a repository nothing is committed and no worker is spawned,
\* and after do_submit the snapshot holds the submitted session, the only
\* push event is the Timeout that do_submit sends itself, and the screen is
\* SaveLocal once that event is handled
C18_no_repo_saves_locally ==
    ~is_git =>
      /\ commits = 0
      /\ submits = 0
      /\ workers = NoWorkers
      /\ (phase = "running" /\ IsSome(state.submitted_at))
           => /\ disk.snapshot = Complete(build_answers_yaml(state))
              /\ IF push_q = <<>>
                 THEN state.screen = "SaveLocal"
                 ELSE /\ state.screen = "Pushing"
                      /\ push_q = <<PushEvent("Timeout", 0, 0, 0, 0)>>

\* a submission outside a repository has ended on SaveLocal
C18_witness ==
    /\ ~is_git
    /\ phase = "running"
    /\ IsSome(state.submitted_at)
    /\ state.screen = "SaveLocal"
    /\ disk.snapshot = Complete(build_answers_yaml(state))

\* the answer of the current Short or Long question is the live buffer
BufferCommitted(s) ==
    is_current_text(s) =>
      LET a == s.answers[current_question_number(s)] IN
      IF s.text_input = <<>>
      THEN IsNone(a)
      ELSE IsSome(a) /\ Unwrap(a).text = Some(s.text_input)

\* C19: in every step in which do_submit commits, the session it leaves has
\* the live buffer of the step's start as the answer of the current text
\* question and carries submitted_at, and the document on disk is the
\* document of that session
C19_submit_commits_buffer ==
    [][ (phase' = "running" /\ commits' = commits + 1)
          => /\ state'.text_input = state.text_input
             /\ BufferCommitted(state')
             /\ IsSome(state'.submitted_at)
             /\ disk'.snapshot = Complete(build_answers_yaml(state')) ]_vars

\* the time expired on typed text that no key had committed
C19_witness ==
    /\ commits = 1
    /\ state.screen = "Pushing"
    /\ state.dialog_stack = <<>>
    /\ state.input_mode = "TextInput"
    /\ state.text_input = <<"x">>
    /\ state.remaining_seconds = Some(0)
    /\ BufferCommitted(state)
    /\ IsSome(state.submitted_at)

\* the sessions the handlers of the keys of SpecPersist leave
HandlerResults ==
    { LET r == handle_key(state, k, None, None, now) IN
      IF r.eff = "quit" THEN [r.st EXCEPT !.should_quit = TRUE] ELSE r.st :
        k \in PersistKeys, now \in Times }

\* C20: a step in which save_state fails does not end the main loop and
\* leaves in memory exactly the session the key handler produced, and a step
\* on the Working screen whose save succeeds leaves the document of the
\* whole current session on disk
C20_failed_save_keeps_session ==
    [][ /\ (phase = "running" /\ faults_left' < faults_left)
          => /\ phase' # "exited"
             /\ phase' = "running" => state' \in HandlerResults
        /\ ( /\ phase = "running"
             /\ phase' = "running"
             /\ faults_left' = faults_left
             /\ state'.screen = "Working" )
          => disk'.snapshot = Complete(build_answers_yaml(state')) ]_vars

\* after a failed save the snapshot holds an answer given since
C20_witness ==
    /\ phase = "running"
    /\ faults_left < MaxSaveFaults
    /\ state.screen = "Working"
    /\ \E n \in Numbers(state.quiz) : IsSome(state.answers[n])
    /\ disk.snapshot = Complete(build_answers_yaml(state))

\* ------------------------------------------------------ parse_size
\* the number part and the unit part of the max_size values explored
SizeNumbers ==
    {
      <<"5">>, <<"2">>, <<"1", "0", "0">>, <<"0">>,
      <<"1", "7", "1", "7", "9", "8", "6", "9", "1", "8", "3">>,
      <<"1", "7", "1", "7", "9", "8", "6", "9", "1", "8", "4">>,
      <<"1", "8", "4", "4", "6", "7", "4", "4", "0", "7", "3", "7", "0", "9", "5", "5", "1", "6", "1", "5">>,
      <<"1", "8", "4", "4", "6", "7", "4", "4", "0", "7", "3", "7", "0", "9", "5", "5", "1", "6", "1", "6">>,
      <<>>, <<"x">>, <<"+", "5">>, <<"1", ".", "5">>, <<"-", "1">>, <<" ", "5">>
    }
SizeUnits ==
    {
      <<>>, <<"B">>, <<"b">>, <<"K", "B">>, <<"k", "b">>, <<"K", "b">>, <<"M", "B">>,
      <<"m", "b">>, <<"G", "B">>, <<"g", "b">>, <<" ", "M", "B">>, <<"M", "B", " ">>,
      <<"T", "B">>
    }

\* parse_file_constraints is about to hand a max_size value to parse_size
InitSize ==
    /\ InitCommonSession
    /\ \E num \in SizeNumbers, unit \in SizeUnits :
         size_job = [num |-> num, suffix |-> unit, res |-> [kind |-> "pending"]]
    /\ parser = ParserOff
    /\ document = DocumentStart
    /\ state = AppState_new(QuizShort)
    /\ is_git = FALSE
    /\ limits = [submits |-> 0, failures |-> 0]
    /\ disk = [snapshot |-> Absent, tmp |-> Absent]
    /\ timer = TimerOff(1)
    /\ runs_left = 0
    /\ faults_left = 0

\* constraints.max_size = parse_size(value)
ParseSize ==
    /\ size_job.res.kind = "pending"
    /\ \E r \in parse_size(size_job.num \o size_job.suffix) :
         size_job' = [size_job EXCEPT !.res = r]
    /\ UNCHANGED <<parser, document, state, is_git, limits, phase, runs_left, disk,
                   push_cancel, push_q, workers, submits, commits, timer, timer_q,
                   faults_left, load_res>>

NextSize == ParseSize

SpecSize == InitSize /\ [][NextSize]_vars

\* ------------------------------------------------------ parse_body
\* the variables of a session, which parsing leaves alone
session_vars ==
    <<size_job, state, is_git, limits, phase, runs_left, disk, push_cancel, push_q, workers,
      submits, commits, timer, timer_q, faults_left, load_res>>

HeadingTexts == {TitlePlain, TitleMulti, TitleZero, TitleBare}
QuoteTexts == {"short", "long", "file"}
ParagraphTexts ==
    { <<":", ":", ":", "h", "i", "n", "t">>, <<"h">>, <<":", ":", ":">> }

\* parse_quiz is about to read the events of a document
InitParse ==
    /\ InitCommonSession
    /\ size_job = SizeOff
    /\ parser = ParserStart
    /\ document = DocumentStart
    /\ state = AppState_new(QuizShort)
    /\ is_git = FALSE
    /\ limits = [submits |-> 0, failures |-> 0]
    /\ disk = [snapshot |-> Absent, tmp |-> Absent]
    /\ timer = TimerOff(1)
    /\ runs_left = 0
    /\ faults_left = 0

\* documents with more than MaxMixedItems items are lists to their end
ListOnly == document.items > MaxMixedItems

Heading2(title) ==
    /\ parser.pc = "reading"
    /\ ~ListOnly
    /\ document.headings < MaxHeadings
    /\ parser' = on_heading2(parser, title)
    /\ document' = [document EXCEPT !.headings = @ + 1]
    /\ UNCHANGED session_vars

\* the k-th checkbox item of the document carries the text k
TaskItem ==
    /\ parser.pc = "reading"
    /\ document.items < MaxItems
    /\ document.items < MaxMixedItems \/ (document.headings <= 1 /\ document.texts = 0)
    /\ parser' = on_task_item(parser, document.items + 1)
    /\ document' = [document EXCEPT !.items = @ + 1]
    /\ UNCHANGED session_vars

BlockQuote(text) ==
    /\ parser.pc = "reading"
    /\ ~ListOnly
    /\ parser' = on_block_quote(parser, text)
    /\ UNCHANGED <<document, session_vars>>

ParagraphText(t) ==
    /\ parser.pc = "reading"
    /\ ~ListOnly
    /\ document.texts < MaxTexts
    /\ parser' = on_paragraph_text(parser, t)
    /\ document' = [document EXCEPT !.texts = @ + 1]
    /\ UNCHANGED session_vars

EndOfEvents ==
    /\ parser.pc = "reading"
    /\ parser' = on_end(parser)
    /\ UNCHANGED <<document, session_vars>>

NextParse ==
    \/ \E title \in HeadingTexts : Heading2(title)
    \/ TaskItem
    \/ \E text \in QuoteTexts : BlockQuote(text)
    \/ \E t \in ParagraphTexts : ParagraphText(t)
    \/ EndOfEvents

SpecParse == InitParse /\ [][NextParse]_vars

\* question qnum has an answer: the live buffer for the current Short or Long
\* question, an entry of answers otherwise
HasAnswer(s, qnum) ==
    IF is_current_text(s) /\ current_question_number(s) = qnum
    THEN s.text_input # <<>>
    ELSE IsSome(s.answers[qnum])

\* the answer of question qnum holds nothing
AnswerEmpty(s, qnum) ==
    IF is_current_text(s) /\ current_question_number(s) = qnum
    THEN s.text_input = <<>>
    ELSE \/ IsNone(s.answers[qnum])
         \/ LET a == Unwrap(s.answers[qnum]) IN
            /\ IsSome(a.selected) => Unwrap(a.selected) = <<>>
            /\ IsSome(a.text) => Unwrap(a.text) = <<>>
            /\ IsSome(a.files) => Unwrap(a.files) = <<>>

\* C21: question_status is Done exactly for a question that is marked done
\* and whose answer is not empty; for every other question it is Flagged for
\* a flagged one, else Answered for one that has an answer, else NotAnswered
\* for a visited one, else Unread
C21_status_precedence ==
    \A qnum \in Numbers(state.quiz) :
      IF question_status(state, qnum) = "Done"
      THEN state.done_marks[qnum] /\ ~AnswerEmpty(state, qnum)
      ELSE /\ state.done_marks[qnum] => AnswerEmpty(state, qnum)
           /\ question_status(state, qnum) =
                (IF state.flags[qnum] THEN "Flagged"
                 ELSE IF HasAnswer(state, qnum) THEN "Answered"
                 ELSE IF state.visited[qnum] THEN "NotAnswered"
                 ELSE "Unread")

\* the text stored for question qnum, empty when there is none
StoredText(s, qnum) ==
    IF IsSome(s.answers[qnum]) /\ IsSome(Unwrap(s.answers[qnum]).text)
    THEN Unwrap(Unwrap(s.answers[qnum]).text)
    ELSE <<>>

\* C22: from every reachable session navigate_to with a valid index leaves
\* the buffer of a Short or Long question being left as its answer (no entry
\* for an empty buffer) and the other answers as they were, marks the
\* destination visited and loads its stored text; going to another question
\* and back restores the buffer; an index out of range changes nothing
C22_navigate_commits_and_loads ==
    \A idx \in 0 .. Len(state.quiz.questions) + 1 :
      LET r == navigate_to(state, idx)
          from == current_question_number(state)
      IN IF idx >= Len(state.quiz.questions)
         THEN r = state
         ELSE LET dest == state.quiz.questions[idx + 1].number IN
              /\ r.current_question = idx
              /\ r.visited[dest]
              /\ \A n \in Numbers(state.quiz) :
                   IF is_current_text(state) /\ n = from
                   THEN /\ StoredText(r, n) = state.text_input
                        /\ state.text_input = <<>> => IsNone(r.answers[n])
                   ELSE r.answers[n] = state.answers[n]
              /\ r.text_input = StoredText(r, dest)
              /\ (is_current_text(state) /\ idx # state.current_question)
                   => navigate_to(r, state.current_question).text_input
                        = state.text_input

\* a typed answer was committed by navigating to the next question
C22_witness ==
    /\ state.quiz = QuizShort
    /\ state.screen = "Working"
    /\ state.current_question = 1
    /\ state.text_input = <<>>
    /\ StoredText(state, 2) = <<"x">>
    /\ navigate_to(state, 0).text_input = <<"x">>

\* C23: answers holds no entry with an empty text, and a Short or Long
\* question without an entry is not marked done
C23_no_empty_text_entry ==
    \A n \in Numbers(state.quiz) :
      /\ IsSome(state.answers[n])
           => Unwrap(state.answers[n]).text # Some(<<>>)
      /\ \A i \in 1 .. Len(state.quiz.questions) :
           ( /\ state.quiz.questions[i].number = n
             /\ IsTextKind(state.quiz.questions[i].kind)
             /\ IsNone(state.answers[n]) )
             => ~state.done_marks[n]

\* the questions of the quiz of session s that carry number n
QuestionsNumbered(s, n) ==
    { i \in 1 .. Len(s.quiz.questions) : s.quiz.questions[i].number = n }

\* C24: in every state of a session, resumed sessions included, no question
\* has more hints revealed than it has hints
C24_hints_within_bounds ==
    \A n \in Numbers(state.quiz) : \A i \in QuestionsNumbered(state, n) :
      state.hints_revealed[n] <= Len(state.quiz.questions[i].hints)


\* the payloads of an answer that are populated
Payloads(a) == { p \in {"selected", "text", "files"} : IsSome(a[p]) }

\* the payload that belongs to a question kind
PayloadOf(kind) ==
    CASE kind \in {"SingleChoice", "MultiChoice"} -> "selected"
      [] kind \in {"Short", "Long"} -> "text"
      [] kind = "File" -> "files"

\* C25: every entry of answers carries the type tag of the question it is
\* stored for, and exactly the one payload that belongs to that kind
C25_answers_match_kinds ==
    \A n \in Numbers(state.quiz) : \A i \in QuestionsNumbered(state, n) :
      IsSome(state.answers[n]) =>
        LET a == Unwrap(state.answers[n])
            q == state.quiz.questions[i]
        IN /\ a.answer_type = AnswerTypeOf(q.kind)
           /\ Payloads(a) = {PayloadOf(q.kind)}


\* the snapshot of a session with the stored position replaced by v
SnapshotAt(s, v) ==
    [snapshot |-> Complete([build_answers_yaml(s) EXCEPT !.current_question = v]),
     tmp |-> Absent]

TwoDigits(t) ==
    LET val(c) == CHOOSE d \in 0 .. 9 : Decimal(d) = <<c>> IN
    10 * val(t[1]) + val(t[2])

\* the seconds an "HH:MM:SS" text stands for
SecondsOf(t) ==
    3600 * TwoDigits(SubSeq(t, 1, 2)) + 60 * TwoDigits(SubSeq(t, 4, 5))
      + TwoDigits(SubSeq(t, 7, 8))

IsHMS(t) ==
    /\ Len(t) = 8
    /\ t[3] = ":" /\ t[6] = ":"
    /\ \A i \in {1, 2, 4, 5, 7, 8} : \E d \in 0 .. 9 : Decimal(d) = <<t[i]>>

\* start and end instants the duration is computed for
DurationTimes == {0, 1, 59, 60, 61, 3599, 3600, 4954, 86399}

\* C27: the document build_answers_yaml produces for the session has one entry
\* per question in quiz order, its answer is null exactly when the session
\* holds no answer for the question, and the duration is the time from
\* started_at to submitted_at as HH:MM:SS, zero when the end is earlier
C27_document_entries ==
    LET doc == build_answers_yaml(state)
        qs == state.quiz.questions
    IN /\ Len(doc.questions) = Len(qs)
       /\ \A i \in 1 .. Len(qs) :
            /\ doc.questions[i].number = qs[i].number
            /\ (doc.questions[i].answer.y = "null")
                 <=> IsNone(state.answers[qs[i].number])
       /\ (IsSome(state.started_at) /\ IsSome(state.submitted_at))
            => /\ IsHMS(doc.duration)
               /\ SecondsOf(doc.duration)
                    = Max(Unwrap(state.submitted_at) - Unwrap(state.started_at), 0)
       /\ \A b, e \in DurationTimes :
            LET t == compute_duration(Some(b), Some(e)) IN
            IsHMS(t) /\ SecondsOf(t) = Max(e - b, 0)


\* a heading text of the form "<integer>. <title>"
WellFormedHeading(text) ==
    LET t == Trim(text) IN
    \E i \in 1 .. Len(t) :
      /\ t[i] = "."
      /\ i > 1
      /\ \A k \in 1 .. i - 1 : t[k] \in DigitChars

\* C28: a document is parsed to a quiz only if its level-2 headings carry
\* pairwise distinct positive numbers; every heading of a parsed document
\* gave one question, and a document whose last heading so far is not of the
\* form "<integer>. <title>" ends in a parse error at the next heading as at
\* the end of the document
C28_numbers_distinct_positive ==
    /\ parser.pc = "ok" =>
         /\ Len(parser.questions) = document.headings
         /\ \A i \in 1 .. Len(parser.questions) : parser.questions[i].number > 0
         /\ \A i, j \in 1 .. Len(parser.questions) :
              i # j => parser.questions[i].number # parser.questions[j].number
    /\ (parser.pc = "reading" /\ parser.seen_h2
          /\ ~WellFormedHeading(parser.current_h2_text)) =>
         /\ on_end(parser).pc = "err"
         /\ \A title \in HeadingTexts : on_heading2(parser, title).pc = "err"

LowercaseLetters ==
    << "a", "b", "c", "d", "e", "f", "g", "h", "i", "j", "k", "l", "m",
       "n", "o", "p", "q", "r", "s", "t", "u", "v", "w", "x", "y", "z" >>

\* C29: in a parsed document the choices of every question are its checkbox
\* items in document order, the i-th choice carries the i-th lowercase
\* letter, and every question starts again at "a"
C29_labels_lowercase_in_order ==
    parser.pc = "ok" =>
      \A n \in 1 .. Len(parser.questions) :
        LET choices == parser.questions[n].choices IN
        /\ \A i \in 1 .. Len(choices) :
             /\ i <= Len(LowercaseLetters)
             /\ choices[i].label = LowercaseLetters[i]
        /\ \A i, j \in 1 .. Len(choices) :
             i < j => choices[i].text < choices[j].text

\* C30: in a parsed document a question whose title contains (Multi) is
\* MultiChoice, a question without the marker that has a checkbox item is
\* SingleChoice, and a question with a checkbox item is never Short, Long or
\* File
C30_marker_and_items_give_kind ==
    parser.pc = "ok" =>
      \A n \in 1 .. Len(parser.questions) :
        LET q == parser.questions[n]
            multi == ContainsText(q.title, MultiMarker)
        IN /\ multi => q.kind = "MultiChoice"
           /\ (~multi /\ q.choices # <<>>) => q.kind = "SingleChoice"
           /\ q.choices # <<>> => q.kind \notin {"Short", "Long", "File"}

\* the units of the claim, in any case, with their power of 1024
ClaimedUnits ==
    {
      <<>>, <<"B">>, <<"b">>, <<"K", "B">>, <<"k", "b">>, <<"K", "b">>, <<"M", "B">>,
      <<"m", "b">>, <<"G", "B">>, <<"g", "b">>
    }
UnitPower(unit) ==
    LET u == to_uppercase(unit) IN
    CASE u = <<"G", "B">> -> 3
      [] u = <<"M", "B">> -> 2
      [] u = <<"K", "B">> -> 1
      [] OTHER -> 0

IsDecimal(t) == t # <<>> /\ \A i \in 1 .. Len(t) : t[i] \in DigitChars

\* C31: parse_size turns a decimal integer with an optional unit B, KB, MB
\* or GB in any case into the integer times 1, 1024, 1024^2 or 1024^3 (unset
\* where the product is no u64), "5MB" into 5242880, "2GB" into 2147483648
\* and "100" into 100; a value with no digits, a sign, a fraction or another
\* unit leaves max_size unset; and no value makes the parse fail
C31_size_is_integer_times_unit ==
    size_job.res.kind \notin {"off", "pending"} =>
      LET num == size_job.num
          unit == size_job.suffix
          product == TimesKibi(DecimalValue(num), UnitPower(unit))
      IN /\ size_job.res.kind # "panic"
         /\ (IsDecimal(num) /\ unit \in ClaimedUnits) =>
              size_job.res = IF FitsU64(product)
                             THEN [kind |-> "some", v |-> product]
                             ELSE [kind |-> "none"]
         /\ (num = <<"5">> /\ unit = <<"M", "B">>) =>
              size_job.res.v = DecimalValue(<<"5", "2", "4", "2", "8", "8", "0">>)
         /\ (num = <<"2">> /\ unit = <<"G", "B">>) =>
              size_job.res.v
                = DecimalValue(<<"2", "1", "4", "7", "4", "8", "3", "6", "4", "8">>)
         /\ (num = <<"1", "0", "0">> /\ unit = <<>>) =>
              size_job.res.v = <<100>>
         /\ (num \in {<<>>, <<"x">>, <<"1", ".", "5">>, <<"-", "1">>}
               \/ unit = <<"T", "B">>) =>
              size_job.res.kind = "none"


\* the main loop takes the event at the head of the push channel
PushEventTaken ==
    /\ phase = "running" /\ phase' = "running"
    /\ push_q # <<>>
    /\ push_q' = Tail(push_q)

\* C32: an event of a worker of an earlier, cancelled submission, handled after a later
\* submission has started its own worker, changes neither the screen nor the
\* push status shown
C32_stale_events_ignored ==
    [][ (/\ PushEventTaken
         /\ Head(push_q).w < submits
         /\ workers[Head(push_q).w].cancel_requested) =>
          /\ state'.screen = state.screen
          /\ state'.push_attempt = state.push_attempt
          /\ state'.push_retry_secs = state.push_retry_secs
          /\ state'.push_elapsed_secs = state.push_elapsed_secs ]_vars


\* C33: while the program runs on a terminal screen the screen stays what it
\* is, no submission is started, and a key either does nothing or quits
C33_terminal_screens_final ==
    [][ (phase = "running" /\ state.screen \in TerminalScreens) =>
          /\ \A k \in PushKeys :
               LET r == handle_key(state, k, None, None, 1) IN
               /\ r.eff \in {"none", "quit"}
               /\ r.st \in {state, [state EXCEPT !.should_quit = TRUE]}
          /\ phase' = "running" =>
               /\ state'.screen = state.screen
               /\ submits' = submits ]_vars


\* C34: once a submission has been started and until the screen is Working
\* again, no step of the running program changes answers, flags, done_marks
\* or hints_revealed
C34_submitted_work_frozen ==
    [][ (/\ phase = "running" /\ phase' = "running"
         /\ submits > 0
         /\ state.screen # "Working") =>
          /\ state'.answers = state.answers
          /\ state'.flags = state.flags
          /\ state'.done_marks = state.done_marks
          /\ state'.hints_revealed = state.hints_revealed ]_vars


\* Success, Conflict, Timeout and Cancelled end a run of push_with_retry
TerminalEvents == {"Success", "Conflict", "Timeout", "Cancelled"}

\* C35: every event a run of push_with_retry sends before its last one is a
\* Retrying, the i-th Retrying carries attempt = i, a terminal event is sent
\* only as the last event, and a run has returned exactly when it has sent
\* its terminal event
C35_one_terminal_event_last ==
    \A w \in WorkerIds :
      /\ \A i \in 1..Len(sent(w)) :
           /\ i < Len(sent(w)) => sent(w)[i].ev = "Retrying"
           /\ sent(w)[i].ev = "Retrying" => sent(w)[i].attempt = i
           /\ sent(w)[i].ev \in TerminalEvents \cup {"Retrying"}
      /\ workers[w].pc = "done" <=>
           (sent(w) # <<>> /\ last_sent(w).ev \in TerminalEvents)

\* a run has returned after two Retrying events and a terminal event
C35_witness ==
    \E w \in WorkerIds :
      /\ workers[w].pc = "done"
      /\ Len(sent(w)) = 3
      /\ sent(w)[2].ev = "Retrying"
      /\ sent(w)[2].attempt = 2
      /\ sent(w)[3].ev = "Cancelled"


\* one push worker whose pushes all fail with a network error
NextRetry ==
    \/ Run
    \/ MainExit
    \/ \E k \in WorkerKeys : KeyEvent(k)
    \/ PushEventHandled
    \/ \E w \in WorkerIds : WorkerCheck(w)
    \/ \E w \in WorkerIds : WorkerPush(w, "Network")
    \/ \E w \in WorkerIds : WorkerWait(w)

\* the one submission of this specification is pushed by the first worker;
\* its thread is scheduled, its sleep and its git push return, and the main
\* loop drains the channel on every iteration
FairRetry ==
    /\ WF_vars(PushEventHandled)
    /\ WF_vars(WorkerCheck(1))
    /\ WF_vars(WorkerPush(1, "Network"))
    /\ WF_vars(WorkerWait(1))

SpecRetry == InitWorker /\ [][NextRetry]_vars /\ FairRetry

\* C36: while the process lives, a run of push_with_retry whose pushes all
\* fail returns after Timeout or Cancelled; Timeout is sent by attempt 24
\* after 600 seconds of backoff and Cancelled only with the cancel flag set;
\* a run that finds the flag set at its loop head or in its sleep sends
\* Cancelled
C36_push_with_retry_terminates ==
    /\ Running(1) ~> \/ phase # "running"
                     \/ /\ workers[1].pc = "done"
                        /\ last_sent(1).ev \in {"Timeout", "Cancelled"}
    /\ (push_cancel /\ workers[1].pc \in {"check", "wait"})
          ~> \/ phase # "running"
             \/ /\ workers[1].pc = "done"
                /\ last_sent(1).ev = "Cancelled"
    /\ [](\A w \in WorkerIds :
            workers[w].pc = "done" =>
              /\ last_sent(w).ev = "Timeout" =>
                   last_sent(w).attempt = 24 /\ last_sent(w).elapsed = max_elapsed
              /\ last_sent(w).ev = "Cancelled" => push_cancel)

\* a run has returned after Timeout with the cancel flag never set
C36_witness ==
    \E w \in WorkerIds :
      /\ workers[w].pc = "done"
      /\ last_sent(w).ev = "Timeout"
      /\ Len(sent(w)) = 24
      /\ ~push_cancel
      /\ phase = "running"


\* a working directory that is no repository, the quiz with more than two
\* minutes left when the program starts inside the time window
InitTimer ==
    /\ InitCommon
    /\ \E q \in {QuizShort, QuizFile} : state = AppState_new(q)
    /\ is_git = FALSE
    /\ limits = [submits |-> MaxSubmits, failures |-> MaxFailures]
    /\ disk = [snapshot |-> Absent, tmp |-> Absent]
    /\ timer = TimerOff(TimerTop)
    /\ runs_left = 1
    /\ faults_left = 0

\* the keys that start, fill in the acknowledgment, submit and confirm
TimerKeys ==
    { PlainKey("Enter"), PlainKey("Esc"), PlainKey("Tab"), CharKey("x"),
      CtrlKey("s") }

\* the timer thread and the main loop from the start of the program on
NextTimer ==
    \/ Run
    \/ MainExit
    \/ \E k \in TimerKeys : KeyEvent(k)
    \/ TimerStep
    \/ TimerEvent
    \/ PushEventHandled

SpecTimer == InitTimer /\ [][NextTimer]_vars

\* the positions of the events named ev among those the timer thread sent
TimerSent(ev) == {i \in 1..Len(timer.sent) : timer.sent[i].ev = ev}

\* C37: the timer thread sends TwoMinuteWarning at most once and TimeExpired
\* at most once, TimeExpired only as its last event (so no warning follows
\* it), and every Tick with a remaining time above zero
C37_timer_events_in_order ==
    /\ Cardinality(TimerSent("TwoMinuteWarning")) <= 1
    /\ Cardinality(TimerSent("TimeExpired")) <= 1
    /\ \A i \in TimerSent("TimeExpired") : i = Len(timer.sent)
    /\ \A i \in TimerSent("Tick") : timer.sent[i].secs > 0
    /\ timer.pc = "done" <=> TimerSent("TimeExpired") # {}

\* the thread has ticked before and after its warning and has sent
\* TimeExpired
C37_witness ==
    /\ Len(timer.sent) = 5
    /\ timer.sent[1].ev = "Tick"
    /\ timer.sent[2].ev = "TwoMinuteWarning"
    /\ timer.sent[4] = TimerMsg("Tick", 1)
    /\ timer.sent[5].ev = "TimeExpired"


\* TimeExpired is the last event of the timer thread: it has been handled
\* once the thread is done and the timer channel is empty
TimeExpiredHandled == timer.pc = "done" /\ timer_q = <<>>

\* C38: the step that handles TimeExpired on the Working screen starts a
\* submission, and after TimeExpired has been handled the screen becomes
\* Working only through the Cancelled event of a push worker
C38_no_work_after_expiry ==
    [][ /\ (/\ phase = "running"
            /\ timer_q # <<>>
            /\ Head(timer_q).ev = "TimeExpired"
            /\ timer_q' = Tail(timer_q)
            /\ state.screen = "Working"
            /\ phase' = "running") =>
              /\ state'.screen = "Pushing"
              /\ IsSome(state'.submitted_at)
        /\ (/\ phase = "running" /\ phase' = "running"
            /\ TimeExpiredHandled
            /\ state.screen # "Working"
            /\ state'.screen = "Working") =>
              /\ push_q # <<>>
              /\ Head(push_q).ev = "Cancelled"
              /\ push_q' = Tail(push_q) ]_vars


\* the timer thread is scheduled and its sleep returns; the main loop drains
\* the timer channel on every iteration
FairTimer == WF_vars(TimerStep) /\ WF_vars(TimerEvent)

SpecTimerFair == InitTimer /\ [][NextTimer]_vars /\ FairTimer

\* C39: a running session on the Waiting screen reaches the Preamble screen
\* unless the user quits or the process ends
C39_waiting_reaches_preamble ==
    (phase = "running" /\ state.screen = "Waiting")
       ~> \/ state.screen = "Preamble"
          \/ state.should_quit
          \/ phase # "running"


\* the events of one section under a level-2 heading: nothing, a block
\* quote, a checkbox item, a paragraph, a hint block, a lone closing marker
SectionBodies ==
    { <<>>,
      <<[e |-> "quote", v |-> "long"]>>,
      <<[e |-> "item", v |-> "t"]>>,
      <<[e |-> "text", v |-> <<"h">>]>>,
      <<[e |-> "text", v |-> <<":", ":", ":">>]>>,
      <<[e |-> "text", v |-> <<":", ":", ":", "h", "i", "n", "t">>],
        [e |-> "text", v |-> <<"h">>],
        [e |-> "text", v |-> <<":", ":", ":">>]>> }

\* parse_body over the events of a section
RECURSIVE ParseSection(_, _)
ParseSection(p, body) ==
    IF body = <<>> THEN p
    ELSE LET ev == Head(body)
             p1 == CASE ev.e = "quote" -> on_block_quote(p, ev.v)
                     [] ev.e = "item" -> on_task_item(p, ev.v)
                     [] ev.e = "text" -> on_paragraph_text(p, ev.v)
         IN ParseSection(p1, Tail(body))

\* the kind, choices and hints of the question parsed from a heading and the
\* section under it when they follow what p has read
SectionQuestion(p, body) ==
    LET e == on_end(ParseSection(on_heading2(p, TitlePlain), body))
        q == e.questions[Len(e.questions)]
    IN [kind |-> q.kind, choices |-> q.choices, hints |-> q.hints]

\* C40: whatever the parser has read under the headings so far, the question
\* parsed from a next heading and its section has the kind, choices and hints the same heading
\* and section give at the start of a document, and Short without choices
\* and hints when the section is empty
C40_question_from_own_section ==
    (/\ parser.pc = "reading"
     /\ parser.seen_h2
     /\ on_heading2(parser, TitlePlain).pc # "err") =>
      /\ \A body \in SectionBodies :
           SectionQuestion(parser, body) = SectionQuestion(ParserStart, body)
      /\ SectionQuestion(parser, <<>>) =
           [kind |-> "Short", choices |-> <<>>, hints |-> <<>>]

====
